---- MODULE Spec2Model ----
(***************************************************************************)
(* kube-watcher: the event pipeline (watcher -> filter -> deduplicator ->  *)
(* batcher / sink) and its hot reload, as a state machine.                 *)
(*                                                                         *)
(* Time is a discrete clock `now`; every time.Now() of the code reads it.  *)
(* A thread is a goroutine; pc[t] is its position in the code.             *)
(***************************************************************************)
EXTENDS Integers, Sequences, FiniteSets, TLC

VARIABLES
    now,      \* the wall clock, in ticks
    pc,       \* goroutine -> position
    dedup,    \* deduplicator instance -> its fields (dedup.Deduplicator)
    sp,       \* goroutine -> frame of its ShouldProcess call
    stored,   \* history: deduplicator instance -> cache key -> the accepted call
              \* (key, data, at) that stored the entry
    comp,     \* main: the component references fmt, slackNotifier, eventFilter,
              \* deduplicator, eventBatcher (an instance is named by the
              \* generation of the configuration it was built from)
    mu,       \* main: the sync.RWMutex protecting comp; its writer, or ""
    config,   \* generation -> the *config.Config loaded for it
    batcher,  \* batcher instance -> its fields (batcher.Batcher)
    hv,       \* goroutine -> frame of its eventHandler call
    fl,       \* goroutine -> frame of its Batcher.flush / batchHandler call
    sink,     \* the messages SendMessage has posted, in order
    proc,     \* the process: "up", "exited" or "crashed"
    loads,    \* count of configuration reloads so far
    delivered,\* history: the events the watcher has handed to eventHandler, in order
    deferred, \* main: the receivers of the deferred Stop calls
    installed,\* history: the values of comp at every release of mu by initComponents
    history,  \* history: batcher instance -> the events passed to Add, in order
              \* (added), the batches flush took, in order (emitted), and the
              \* count of events added when Stop was called (atStop)
    cb        \* goroutine -> the informer callback it runs or ran last: the
              \* function (fn) and its arguments (oldObj, newObj)

\* the variables of the pipeline around the deduplicator
pvars == <<comp, mu, config, batcher, hv, fl, sink, proc, loads, delivered, deferred, installed,
           history, cb>>

vars == <<now, pc, dedup, sp, stored, pvars>>

-----------------------------------------------------------------------------
(* Bounds of the model *)

\* the clock runs from 0 to MaxTime
MaxTime == 2
\* deduplicators are built with ttl in 1..MaxTTL ticks
MaxTTL == 2
\* deduplicators are built with maxSize in 1..MaxCacheSize
MaxCacheSize == 2

-----------------------------------------------------------------------------
(* Values *)

\* a nil component reference
Nil == -1

\* dedup.EventKey
EventKey(name, eventType) ==
    [Kind |-> "Pod", Namespace |-> "default", Name |-> name, EventType |-> eventType]

\* the keys the callers use: two differ in EventType only, two in Name only
Keys == {EventKey("web", "ADDED"), EventKey("web", "UPDATED"), EventKey("db", "UPDATED")}

\* A payload handed to ShouldProcess is what json.Marshal walks: the ordered
\* <<field, value>> pairs of a struct (or of a map, whose keys Marshal sorts).
\* The value "<chan>" stands for a Go value json.Marshal rejects.
Unmarshalable == "<chan>"
Payloads ==
    { << <<"status", "Running">> >>,
      << <<"status", "Pending">> >>,
      << <<"status", Unmarshalable>> >> }

\* the payload of the concurrent callers
ConcurrentPayloads == { << <<"status", "Running">> >> }

\* the zero dedup.CacheEntry, which a map lookup of a missing key yields
ZeroEntry == [Signature |-> "", Timestamp |-> 0]

\* the frame of a goroutine that is not inside ShouldProcess
NoFrame ==
    [d |-> 0, key |-> [Kind |-> "", Namespace |-> "", Name |-> "", EventType |-> ""],
     data |-> <<>>, signature |-> "", cacheKey |-> "", exists |-> FALSE,
     entry |-> ZeroEntry, oldestKey |-> "", oldestTime |-> 0, ret |-> FALSE]

Restrict(f, S) == [x \in S |-> f[x]]

-----------------------------------------------------------------------------
(* pkg/dedup: pure parts *)

\* json.Marshal: the error flag and the serialization
RECURSIVE jsonFields(_)
jsonFields(data) ==
    IF data = <<>> THEN ""
    ELSE "\"" \o data[1][1] \o "\":\"" \o data[1][2] \o "\""
         \o (IF Len(data) > 1 THEN "," ELSE "") \o jsonFields(Tail(data))

jsonMarshalErr(data) == \E i \in 1..Len(data) : data[i][2] = Unmarshalable

jsonMarshal(data) == "{" \o jsonFields(data) \o "}"

\* sha256.Sum256 printed with %x: distinct inputs give distinct digests
sha256Hex(s) == "sha256:" \o s

generateSignature(data, t) ==
    IF jsonMarshalErr(data) THEN ToString(t) ELSE sha256Hex(jsonMarshal(data))

\* the key without its EventType
makeCacheKey_NoEventType(key) ==
    key.Kind \o "/" \o key.Namespace \o "/" \o key.Name

makeCacheKey(key) ==
    key.Kind \o "/" \o key.Namespace \o "/" \o key.Name \o "/" \o key.EventType

\* any entry, whatever its age
evictOldest_Any(cache) == DOMAIN cache

\* evictOldest, lines 121-127: the keys it may delete. The range over the map visits the keys in
\* any order and keeps the first one that no other is strictly Before
evictOldest(cache) ==
    {k \in DOMAIN cache : \A j \in DOMAIN cache : cache[k].Timestamp <= cache[j].Timestamp}

\* an empty Go map
EmptyMap == [k \in {} |-> ZeroEntry]

NewDeduplicator(ttl, maxSize) ==
    [cache |-> EmptyMap, ttl |-> ttl, maxSize |-> maxSize,
     cleanupC |-> 0, stopC |-> "open", loop |-> "running"]

\* full only once maxSize is exceeded
cacheFull_Gt(d) == Cardinality(DOMAIN dedup[d].cache) > dedup[d].maxSize

\* ShouldProcess, line 80: the cache is full
cacheFull(d) == Cardinality(DOMAIN dedup[d].cache) >= dedup[d].maxSize

\* a duplicate whatever the signature
isDuplicate_NoSignature(exists, entry, signature, t, ttl) ==
    exists /\ t - entry.Timestamp < ttl

\* a duplicate up to and including the TTL
isDuplicate_LeTTL(exists, entry, signature, t, ttl) ==
    exists /\ entry.Signature = signature /\ t - entry.Timestamp <= ttl

\* ShouldProcess, lines 67-73: a duplicate within the TTL
isDuplicate(exists, entry, signature, t, ttl) ==
    exists /\ entry.Signature = signature /\ t - entry.Timestamp < ttl

\* an entry expires only once it is older than ttl
isExpired_GtTTL(entry, t, ttl) == t - entry.Timestamp > ttl

\* cleanup, line 159: the entry has expired
isExpired(entry, t, ttl) == t - entry.Timestamp >= ttl

-----------------------------------------------------------------------------
(* pkg/dedup: ShouldProcess, step by step.  Each critical section of d.mu   *)
(* is one step: nothing blocks inside one.                                  *)

\* lines 60-61: signature and cache key are computed before any lock
ShouldProcess_Begin(t, d, key, data) ==
    /\ sp' = [sp EXCEPT ![t] =
                [NoFrame EXCEPT !.d = d, !.key = key, !.data = data,
                                !.signature = generateSignature(data, now),
                                !.cacheKey = makeCacheKey(key)]]
    /\ pc' = [pc EXCEPT ![t] = "sp_rlock"]
    /\ UNCHANGED <<now, dedup, stored, cb>>

\* lines 63-65: the lookup under the read lock
ShouldProcess_Lookup(t) ==
    /\ pc[t] = "sp_rlock"
    /\ LET c == dedup[sp[t].d].cache
           ck == sp[t].cacheKey
       IN sp' = [sp EXCEPT ![t].exists = ck \in DOMAIN c,
                           ![t].entry = IF ck \in DOMAIN c THEN c[ck] ELSE ZeroEntry]
    /\ pc' = [pc EXCEPT ![t] = "sp_check"]
    /\ UNCHANGED <<now, dedup, stored, pvars>>

\* lines 67-73: the decision, on the entry read before, with time.Since read now
ShouldProcess_Check(t) ==
    /\ pc[t] = "sp_check"
    /\ IF isDuplicate(sp[t].exists, sp[t].entry, sp[t].signature, now, dedup[sp[t].d].ttl)
       THEN /\ sp' = [sp EXCEPT ![t].ret = FALSE]
            /\ pc' = [pc EXCEPT ![t] = "sp_ret"]
       ELSE /\ pc' = [pc EXCEPT ![t] = "sp_lock"]
            /\ UNCHANGED sp
    /\ UNCHANGED <<now, dedup, stored, pvars>>

\* lines 76-95: evict if full, store the entry, signal the reclaimer
ShouldProcess_Insert(t) ==
    /\ pc[t] = "sp_lock"
    /\ LET d == sp[t].d
           c == dedup[d].cache
           ck == sp[t].cacheKey
           victims == IF cacheFull(d) THEN evictOldest(c) ELSE {}
       IN \E k \in (IF victims = {} THEN {""} ELSE victims) :
            LET kept == DOMAIN c \ {k}
                fresh == [Signature |-> sp[t].signature, Timestamp |-> now]
            IN /\ dedup' = [dedup EXCEPT ![d].cache = (ck :> fresh) @@ Restrict(c, kept),
                                         ![d].cleanupC = 1]
               /\ stored' = [stored EXCEPT ![d] =
                     (ck :> [key |-> sp[t].key, data |-> sp[t].data, at |-> now])
                        @@ Restrict(stored[d], kept \ {ck})]
               /\ sp' = [sp EXCEPT ![t].oldestKey = k,
                                   ![t].oldestTime = IF k = "" THEN 0 ELSE c[k].Timestamp,
                                   ![t].ret = TRUE]
    /\ pc' = [pc EXCEPT ![t] = "sp_ret"]
    /\ UNCHANGED <<now, pvars>>

\* lines 152-163: drop every expired entry
cleanup(d) ==
    LET c == dedup[d].cache
        live == {k \in DOMAIN c : ~isExpired(c[k], now, dedup[d].ttl)}
    IN /\ dedup' = [dedup EXCEPT ![d].cache = Restrict(c, live)]
       /\ stored' = [stored EXCEPT ![d] = Restrict(stored[d], live)]

\* cleanupLoop, lines 143-144: the ticker fired (the goroutine may take the
\* tick at any later time)
cleanupLoop_Ticker(d) ==
    /\ dedup[d].loop = "running"
    /\ cleanup(d)
    /\ UNCHANGED <<now, pc, sp, pvars>>

\* cleanupLoop, lines 145-147: a cleanup was requested through cleanupC
cleanupLoop_Signal(d) ==
    /\ dedup[d].loop = "running"
    /\ dedup[d].cleanupC = 1
    /\ LET c == dedup[d].cache
           live == {k \in DOMAIN c : ~isExpired(c[k], now, dedup[d].ttl)}
       IN /\ dedup' = [dedup EXCEPT ![d].cache = Restrict(c, live), ![d].cleanupC = 0]
          /\ stored' = [stored EXCEPT ![d] = Restrict(stored[d], live)]
    /\ UNCHANGED <<now, pc, sp, pvars>>

\* the clock advances
Tick ==
    /\ now < MaxTime
    /\ now' = now + 1
    /\ UNCHANGED <<pc, dedup, sp, stored, pvars>>

\* the deduplicator stands alone: no pipeline around it
NoPipeline ==
    /\ comp = [fmt |-> Nil, slackNotifier |-> Nil, eventFilter |-> Nil,
               deduplicator |-> 0, eventBatcher |-> Nil]
    /\ mu = ""
    /\ config = <<>>
    /\ batcher = <<>>
    /\ hv = <<>>
    /\ fl = <<>>
    /\ sink = <<>>
    /\ proc = "up"
    /\ loads = 0
    /\ delivered = <<>>
    /\ deferred = [deduplicator |-> Nil, eventBatcher |-> Nil]
    /\ installed = {}
    /\ history = <<>>
    /\ cb = <<>>

-----------------------------------------------------------------------------
(* The deduplicator on its own: callers and the reclaimer *)

Callers == {"c1", "c2"}

\* a caller calls ShouldProcess while the other caller may be inside it
Call(t) ==
    /\ pc[t] = "idle"
    /\ \E key \in Keys, data \in ConcurrentPayloads : ShouldProcess_Begin(t, 0, key, data)
    /\ UNCHANGED pvars

\* the sequential caller calls ShouldProcess with any key and payload
CallSeq ==
    /\ pc["c1"] = "idle"
    /\ \E key \in Keys, data \in Payloads : ShouldProcess_Begin("c1", 0, key, data)
    /\ UNCHANGED pvars

\* the call returns to its caller
Return(t) ==
    /\ pc[t] = "sp_ret"
    /\ pc' = [pc EXCEPT ![t] = "idle"]
    /\ sp' = [sp EXCEPT ![t] = NoFrame]
    /\ UNCHANGED <<now, dedup, stored, pvars>>

InitDedup ==
    /\ now = 0
    /\ pc = [t \in Callers |-> "idle"]
    /\ sp = [t \in Callers |-> NoFrame]
    /\ \E ttl \in 1..MaxTTL, maxSize \in 1..MaxCacheSize :
         dedup = (0 :> NewDeduplicator(ttl, maxSize))
    /\ stored = (0 :> EmptyMap)
    /\ NoPipeline

NextDedup ==
    \/ \E t \in Callers : Call(t)
    \/ \E t \in Callers : ShouldProcess_Lookup(t)
    \/ \E t \in Callers : ShouldProcess_Check(t)
    \/ \E t \in Callers : ShouldProcess_Insert(t)
    \/ \E t \in Callers : Return(t)
    \/ cleanupLoop_Ticker(0)
    \/ cleanupLoop_Signal(0)
    \/ Tick

\* concurrent callers
SpecDedup == InitDedup /\ [][NextDedup]_vars

NextDedupSeq ==
    \/ CallSeq
    \/ \E t \in Callers : ShouldProcess_Lookup(t)
    \/ \E t \in Callers : ShouldProcess_Check(t)
    \/ \E t \in Callers : ShouldProcess_Insert(t)
    \/ \E t \in Callers : Return(t)
    \/ cleanupLoop_Ticker(0)
    \/ cleanupLoop_Signal(0)
    \/ Tick

\* one caller, call after call, beside the reclaimer
SpecDedupSeq == InitDedup /\ [][NextDedupSeq]_vars

-----------------------------------------------------------------------------
(* Claims about the deduplicator *)

\* the cache of the deduplicator the goroutine t is calling, and what the
\* step of t is
CacheOf(t) == dedup[sp[t].d].cache
TTLOf(t) == dedup[sp[t].d].ttl
Decides(t) == pc[t] = "sp_check" /\ pc'[t] # "sp_check"
Rejects(t) == pc[t] = "sp_check" /\ pc'[t] = "sp_ret"
Inserts(t) == pc[t] = "sp_lock" /\ pc'[t] = "sp_ret"
LiveEntry(t) ==
    /\ sp[t].cacheKey \in DOMAIN CacheOf(t)
    /\ now - CacheOf(t)[sp[t].cacheKey].Timestamp < TTLOf(t)

\* C5: under any interleaving of ShouldProcess calls and reclaimer runs, with
\* maxSize >= 1, the cache never holds more than maxSize entries.
C5_CacheBounded ==
    \A d \in DOMAIN dedup :
        dedup[d].maxSize >= 1 => Cardinality(DOMAIN dedup[d].cache) <= dedup[d].maxSize

\* a call has just evicted an entry of a full cache while the other caller is
\* inside ShouldProcess
C5_Witness ==
    \E t \in Callers :
        /\ pc[t] = "sp_ret" /\ sp[t].oldestKey # ""
        /\ Cardinality(DOMAIN CacheOf(t)) = dedup[sp[t].d].maxSize
        /\ \E u \in Callers \ {t} : pc[u] \in {"sp_check", "sp_lock"}

\* C6: for sequential calls, ShouldProcess returns true iff the cache holds no
\* live entry for the key or the live entry's signature differs from the
\* payload's; when it returns true the entry for the key is {signature, now};
\* and a payload that serializes, presented again for the same key while the
\* entry it stored is within the TTL, is rejected.
C6_Decision ==
    [][\A t \in Callers :
        /\ Decides(t) =>
              ((pc'[t] = "sp_lock") <=>
                 (~LiveEntry(t) \/ CacheOf(t)[sp[t].cacheKey].Signature # sp[t].signature))
        /\ Rejects(t) => ~sp'[t].ret
        /\ Inserts(t) =>
              /\ sp'[t].ret
              /\ dedup'[sp[t].d].cache[sp[t].cacheKey] =
                     [Signature |-> sp[t].signature, Timestamp |-> now]
        /\ (/\ Decides(t)
            /\ LiveEntry(t)
            /\ ~jsonMarshalErr(sp[t].data)
            /\ stored[sp[t].d][sp[t].cacheKey].key = sp[t].key
            /\ stored[sp[t].d][sp[t].cacheKey].data = sp[t].data)
           => Rejects(t)
    ]_vars

\* the same key and payload were presented twice: the second call is rejected
\* on the entry the first one stored
C6_Witness ==
    \E t \in Callers :
        /\ pc[t] = "sp_ret" /\ ~sp[t].ret
        /\ sp[t].cacheKey \in DOMAIN stored[sp[t].d]
        /\ stored[sp[t].d][sp[t].cacheKey].key = sp[t].key
        /\ stored[sp[t].d][sp[t].cacheKey].data = sp[t].data

\* C8: a call is rejected only while less than ttl has passed since the last
\* accepted occurrence of its key, and a rejection leaves the cache (so the
\* entry's observedAt) as it was.
C8_ExpiredNeverRejects ==
    [][\A t \in Callers :
        Rejects(t) =>
            /\ sp[t].cacheKey \in DOMAIN stored[sp[t].d]
            /\ now - stored[sp[t].d][sp[t].cacheKey].at < TTLOf(t)
            /\ CacheOf(t)[sp[t].cacheKey].Timestamp = stored[sp[t].d][sp[t].cacheKey].at
            /\ dedup'[sp[t].d].cache = CacheOf(t)
    ]_vars

\* a call found an entry with its own signature whose age had reached the TTL
\* and was accepted
C8_Witness ==
    \E t \in Callers :
        /\ pc[t] = "sp_ret" /\ sp[t].ret
        /\ sp[t].exists /\ sp[t].entry.Signature = sp[t].signature
        /\ ~jsonMarshalErr(sp[t].data)

\* C9: a call is rejected only on an entry stored by a call with the same
\* (kind, namespace, name, eventType): an event accepted under another event
\* type or another name never makes it a duplicate.
C9_PerKey ==
    [][\A t \in Callers :
        Rejects(t) =>
            /\ sp[t].cacheKey \in DOMAIN stored[sp[t].d]
            /\ stored[sp[t].d][sp[t].cacheKey].key = sp[t].key
    ]_vars

\* two events with the same payload that differ in event type only: the second
\* has just been accepted while the entry of the first is live
C9_Witness ==
    /\ pc["c1"] = "sp_ret" /\ sp["c1"].ret
    /\ \E k1 \in Keys, k2 \in Keys :
         /\ k1.Name = k2.Name /\ k1.EventType # k2.EventType
         /\ sp["c1"].key = k2
         /\ \A k \in {k1, k2} :
              /\ makeCacheKey(k) \in DOMAIN dedup[0].cache
              /\ stored[0][makeCacheKey(k)].key = k
              /\ stored[0][makeCacheKey(k)].data = sp["c1"].data
         /\ now - dedup[0].cache[makeCacheKey(k1)].Timestamp < dedup[0].ttl

\* C10: inserting a new key into a full cache evicts exactly one entry, one
\* whose observedAt is minimal, and leaves the other entries as they were.
C10_EvictsOldest ==
    [][\A t \in Callers :
        (/\ Inserts(t)
         /\ sp[t].cacheKey \notin DOMAIN CacheOf(t)
         /\ Cardinality(DOMAIN CacheOf(t)) >= dedup[sp[t].d].maxSize)
        => \E v \in DOMAIN CacheOf(t) :
              /\ \A j \in DOMAIN CacheOf(t) :
                    CacheOf(t)[v].Timestamp <= CacheOf(t)[j].Timestamp
              /\ DOMAIN dedup'[sp[t].d].cache =
                    (DOMAIN CacheOf(t) \ {v}) \cup {sp[t].cacheKey}
              /\ \A j \in DOMAIN CacheOf(t) \ {v} :
                    dedup'[sp[t].d].cache[j] = CacheOf(t)[j]
    ]_vars

\* a new key was inserted into a full cache of two entries of different age,
\* and the older one is gone
C10_Witness ==
    \E t \in Callers :
        /\ pc[t] = "sp_ret" /\ sp[t].ret /\ ~sp[t].exists
        /\ sp[t].oldestKey # ""
        /\ dedup[sp[t].d].maxSize = 2
        /\ \E j \in DOMAIN CacheOf(t) \ {sp[t].cacheKey} :
              sp[t].oldestTime < CacheOf(t)[j].Timestamp

\* C11: of two concurrent calls with the same key and the same payload, made
\* while no entry can have expired, at most one returns true
C11_ExactlyOneAccepts ==
    ~(/\ pc["c1"] = "sp_ret" /\ pc["c2"] = "sp_ret"
      /\ sp["c1"].ret /\ sp["c2"].ret
      /\ sp["c1"].d = sp["c2"].d
      /\ sp["c1"].cacheKey = sp["c2"].cacheKey
      /\ sp["c1"].signature = sp["c2"].signature
      /\ now < dedup[sp["c1"].d].ttl)

\* C13: a call whose payload json.Marshal rejects is never taken for a
\* duplicate: its decision is true
C13_UnserializableAccepted ==
    [][\A t \in Callers :
          (Decides(t) /\ jsonMarshalErr(sp[t].data)) => pc'[t] = "sp_lock"]_vars

-----------------------------------------------------------------------------
(* The pipeline of cmd/main.go: values *)

\* bound: the watcher delivers at most MaxEvents events
MaxEvents == 2
\* bound: the watcher reports at most MaxUpdates updates of the one Pod
MaxUpdates == 3
\* bound: the configuration file is rewritten at most MaxReloads times
MaxReloads == 1

\* a map[string]string without entries
NoLabels == <<>>

\* a Pod as the informer hands it over
Pod(name, resourceVersion, phase) ==
    [Namespace |-> "default", Name |-> name, ResourceVersion |-> resourceVersion,
     Phase |-> phase, Labels |-> NoLabels]

\* watcher.convertToEvent for a *corev1.Pod, observed at time t
convertToEvent(obj, kind, eventType, t) ==
    [Kind |-> kind, Namespace |-> obj.Namespace, Name |-> obj.Name,
     EventType |-> eventType, Timestamp |-> t, Object |-> obj,
     Status |-> obj.Phase, Labels |-> obj.Labels]

\* what json.Marshal walks for a *watcher.Event: every exported field, in
\* the order of the struct (the fields the model leaves empty are omitted)
EventFields(e) ==
    << <<"Kind", e.Kind>>, <<"Namespace", e.Namespace>>, <<"Name", e.Name>>,
       <<"EventType", e.EventType>>, <<"Timestamp", ToString(e.Timestamp)>>,
       <<"Object", e.Object.Name \o "@" \o e.Object.ResourceVersion \o ":" \o e.Object.Phase>>,
       <<"Status", e.Status>> >>

\* corev1.Container: the fields convertToEvent reads
Container(name, image) == [Name |-> name, Image |-> image]

\* an object of one of the eight kinds as its informer hands it over: the
\* fields hasSignificantChange and convertToEvent read; a field the kind
\* does not have holds its zero value
Object(kind, resourceVersion, labels, phase, containers, replicas, readyReplicas, serviceType, ports) ==
    [Kind |-> kind, Namespace |-> "default", Name |-> "web",
     ResourceVersion |-> resourceVersion, Labels |-> labels, Phase |-> phase,
     Containers |-> containers, Replicas |-> replicas, ReadyReplicas |-> readyReplicas,
     ServiceType |-> serviceType, Ports |-> ports]

\* no object: the old object of AddFunc and DeleteFunc
NoObject == Object("", "", NoLabels, "", <<>>, 0, 0, "", <<>>)

\* a goroutine of an informer that has run no callback
NoCallback == [fn |-> "", oldObj |-> NoObject, newObj |-> NoObject]

\* hasSignificantChange, the comparison of two container lists: the
\* lengths differ or the images differ at some position
imageChanged(oldContainers, newContainers) ==
    \/ Len(oldContainers) # Len(newContainers)
    \/ \E i \in 1..Len(oldContainers) : oldContainers[i].Image # newContainers[i].Image

\* a Service whose ports are compared one by one
ServiceChanged_PortContents(oldObj, newObj) ==
    \/ oldObj.ServiceType # newObj.ServiceType
    \/ oldObj.Ports # newObj.Ports

\* hasSignificantChange, case *corev1.Service
ServiceChanged(oldObj, newObj) ==
    \/ oldObj.ServiceType # newObj.ServiceType
    \/ Len(oldObj.Ports) # Len(newObj.Ports)

\* hasSignificantChange, the switch on the type of the old object
TypedChange(oldObj, newObj) ==
    CASE oldObj.Kind = "Pod" ->
           \/ oldObj.Phase # newObj.Phase
           \/ imageChanged(oldObj.Containers, newObj.Containers)
      [] oldObj.Kind = "Deployment" ->
           \/ oldObj.Replicas # newObj.Replicas
           \/ oldObj.ReadyReplicas # newObj.ReadyReplicas
           \/ imageChanged(oldObj.Containers, newObj.Containers)
      [] oldObj.Kind = "Service" -> ServiceChanged(oldObj, newObj)
      [] oldObj.Kind \in {"ReplicaSet", "StatefulSet"} ->
           \/ oldObj.Replicas # newObj.Replicas
           \/ oldObj.ReadyReplicas # newObj.ReadyReplicas
      [] OTHER -> FALSE

\* a change detector that does not look at the resource versions
hasSignificantChange_NoVersionCheck(oldObj, newObj) ==
    TypedChange(oldObj, newObj)

\* a change detector that reports every update of a kind it has no case for
hasSignificantChange_DefaultTrue(oldObj, newObj) ==
    IF oldObj.ResourceVersion = newObj.ResourceVersion THEN FALSE
    ELSE IF oldObj.Kind \in {"ConfigMap", "Secret", "DaemonSet"} THEN TRUE
    ELSE TypedChange(oldObj, newObj)

\* Watcher.hasSignificantChange
hasSignificantChange(oldObj, newObj) ==
    IF oldObj.ResourceVersion = newObj.ResourceVersion THEN FALSE
    ELSE TypedChange(oldObj, newObj)

\* the frame of a goroutine that is not inside eventHandler
NoEvent == convertToEvent(Pod("", "", ""), "", "", 0)
NoSnap == [fmt |-> Nil, slackNotifier |-> Nil, eventFilter |-> Nil,
           deduplicator |-> Nil, eventBatcher |-> Nil]
NoHandler == [event |-> NoEvent, snap |-> NoSnap]

\* the frame of a goroutine that is not inside Batcher.flush
NoFlush == [b |-> Nil, batch |-> <<>>, fmt |-> Nil, notifier |-> Nil, c |-> Nil, ret |-> ""]

\* config.FilterConfig
FilterRule(resource, eventTypes, labels, expression) ==
    [Resource |-> resource, EventTypes |-> eventTypes, Labels |-> labels,
     Expression |-> expression]

\* config.FilterConfig without labels and expression
FilterConfig(resource, eventTypes) == FilterRule(resource, eventTypes, NoLabels, "")

\* config.Config as Validate leaves it
Config(template, filters, dedupEnabled, batchingEnabled) ==
    [Template |-> template, Filters |-> filters,
     Deduplication |-> [Enabled |-> dedupEnabled, TTLSeconds |-> 2, MaxCacheSize |-> 2],
     Batching |-> [Enabled |-> batchingEnabled, WindowSeconds |-> 30, Mode |-> "smart",
                   Smart |-> [MaxEventsPerGroup |-> 5, MaxTotalEvents |-> 20,
                              AlwaysShowDetails |-> <<"DELETED">>]]]

GoodTemplate == "[{{ .Kind }}] {{ .Namespace }}/{{ .Name }} was {{ .EventType }}"
BadTemplate == "{{ .Kind "

\* formatter.NewFormatter: template.Parse fails
NewFormatterErr(template) == template = BadTemplate

\* config.GetFilterForResource: the index of the first rule for the kind, or 0
GetFilterForResource(c, kind) ==
    IF \E i \in 1..Len(c.Filters) : c.Filters[i].Resource = kind
    THEN CHOOSE i \in 1..Len(c.Filters) :
            /\ c.Filters[i].Resource = kind
            /\ \A j \in 1..(i - 1) : c.Filters[j].Resource # kind
    ELSE 0

\* matchesEventType with an empty list matching no event type
matchesEventType_EmptyRejects(eventType, allowedTypes) ==
    \E i \in 1..Len(allowedTypes) : allowedTypes[i] = eventType

\* Filter.matchesEventType
matchesEventType(eventType, allowedTypes) ==
    \/ Len(allowedTypes) = 0
    \/ \E i \in 1..Len(allowedTypes) : allowedTypes[i] = eventType

\* m[key] of a Go map: the zero value "" for a key the map does not hold
MapIndex(m, key) == IF key \in DOMAIN m THEN m[key] ELSE ""

\* Filter.matchesLabels
matchesLabels(eventLabels, requiredLabels) ==
    \A key \in DOMAIN requiredLabels : MapIndex(eventLabels, key) = requiredLabels[key]

\* the predicates of the rules: a comparison of the event type, a comparison
\* of a label, a selection that yields a string, and a comparison that lacks
\* its right operand
ExprEventType == "event.eventType == \"DELETED\""
ExprLabel == "event.labels.app == \"web\""
ExprNotBool == "event.name"
ExprBad == "event.eventType =="

\* filter.NewCELFilter: env.Compile rejects the expression
NewCELFilterErr(expression) == expression \in {"", ExprBad}

\* CELFilter.Evaluate: program.Eval fails on a key the labels map does not
\* hold, and a value that is not a bool is an error
CELFilter_Evaluate(expression, event) ==
    IF expression = ExprEventType
    THEN [err |-> FALSE, result |-> event.EventType = "DELETED"]
    ELSE IF expression = ExprLabel /\ "app" \in DOMAIN event.Labels
    THEN [err |-> FALSE, result |-> event.Labels["app"] = "web"]
    ELSE [err |-> TRUE, result |-> FALSE]

\* filter.NewFilter: the compiled predicates by resource kind; a rule whose
\* expression does not compile is logged and skipped, a later rule of the
\* same kind overwrites an earlier one
celFilters(c) ==
    LET compiled == {i \in 1..Len(c.Filters) :
                       /\ c.Filters[i].Expression # ""
                       /\ ~NewCELFilterErr(c.Filters[i].Expression)}
    IN [kind \in {c.Filters[i].Resource : i \in compiled} |->
          LET last == CHOOSE i \in compiled :
                         /\ c.Filters[i].Resource = kind
                         /\ \A j \in compiled : c.Filters[j].Resource = kind => j <= i
          IN c.Filters[last].Expression]

\* ShouldProcess with the event types tested before the predicate
Filter_ShouldProcess_BasicFirst(c, event) ==
    LET i == GetFilterForResource(c, event.Kind)
        evaluated == CELFilter_Evaluate(celFilters(c)[event.Kind], event)
    IN IF i = 0 THEN TRUE
       ELSE IF ~matchesEventType(event.EventType, c.Filters[i].EventTypes) THEN FALSE
       ELSE IF event.Kind \in DOMAIN celFilters(c) /\ ~evaluated.err THEN evaluated.result
       ELSE IF DOMAIN c.Filters[i].Labels # {}
               /\ ~matchesLabels(event.Labels, c.Filters[i].Labels) THEN FALSE
       ELSE TRUE

\* Filter.ShouldProcess of the filter NewFilter builds from c
Filter_ShouldProcess(c, event) ==
    LET i == GetFilterForResource(c, event.Kind)
        evaluated == CELFilter_Evaluate(celFilters(c)[event.Kind], event)
    IN IF i = 0 THEN TRUE
       ELSE IF event.Kind \in DOMAIN celFilters(c) /\ ~evaluated.err THEN evaluated.result
       ELSE IF ~matchesEventType(event.EventType, c.Filters[i].EventTypes) THEN FALSE
       ELSE IF DOMAIN c.Filters[i].Labels # {}
               /\ ~matchesLabels(event.Labels, c.Filters[i].Labels) THEN FALSE
       ELSE TRUE

\* the configurations the file may hold when it is (re)loaded
Configs ==
    {Config(GoodTemplate, <<>>, TRUE, TRUE),
     Config(GoodTemplate, <<>>, FALSE, FALSE),
     Config(GoodTemplate, <<FilterConfig("Pod", <<"ADDED">>)>>, FALSE, FALSE),
     Config(GoodTemplate, <<FilterRule("Pod", <<>>, NoLabels, ExprBad)>>, FALSE, FALSE),
     Config(BadTemplate, <<>>, TRUE, TRUE)}

\* FormatBatchSlackMessage, line 569: the total above which smart mode
\* summarizes every group
SmartSummaryTotal == 20

RECURSIVE groupMap_KindOnly(_)
\* a map of groups keyed by the Kind alone
groupMap_KindOnly(events) ==
    IF events = <<>> THEN <<>>
    ELSE LET groups == groupMap_KindOnly(SubSeq(events, 1, Len(events) - 1))
             event == events[Len(events)]
             key == event.Kind
         IN IF key \in DOMAIN groups
            THEN [groups EXCEPT ![key].Events = Append(@, event)]
            ELSE (key :> [Kind |-> event.Kind, EventType |-> event.EventType,
                          Events |-> <<event>>]) @@ groups

RECURSIVE groupMap(_)
\* groupEvents, lines 647-661: the map the loop over the events builds, from
\* the key "Kind:EventType" to the group of the events with that key
groupMap(events) ==
    IF events = <<>> THEN <<>>
    ELSE LET groups == groupMap(SubSeq(events, 1, Len(events) - 1))
             event == events[Len(events)]
             key == event.Kind \o ":" \o event.EventType
         IN IF key \in DOMAIN groups
            THEN [groups EXCEPT ![key].Events = Append(@, event)]
            ELSE (key :> [Kind |-> event.Kind, EventType |-> event.EventType,
                          Events |-> <<event>>]) @@ groups

\* formatter.groupEvents: the groups of a batch by Kind and EventType, each
\* with its events in batch order; the groups come in map iteration order,
\* so they are a set
groupEvents(events) ==
    LET groups == groupMap(events) IN {groups[key] : key \in DOMAIN groups}

\* Batch.GroupEvents: the same loop over the batch's events and the same key,
\* the groups returned in the map's iteration order, hence as a set
Batch_GroupEvents(events) ==
    LET groupMap_ == groupMap(events) IN {groupMap_[key] : key \in DOMAIN groupMap_}

\* formatter.shouldShowDetailsForGroup
shouldShowDetailsForGroup(mode, eventType, eventCount, maxEventsPerGroup, alwaysShowDetails) ==
    IF mode = "detailed" THEN TRUE
    ELSE IF \E i \in 1..Len(alwaysShowDetails) : alwaysShowDetails[i] = eventType THEN TRUE
    ELSE IF mode = "smart" THEN eventCount <= maxEventsPerGroup
    ELSE FALSE

\* Formatter.FormatBatchSlackMessage: the total of the header and, for every
\* group, the events its attachments are made from, their number, and whether
\* they are rendered one by one (detail) or as one summary attachment
FormatBatchSlackMessage(events, mode, maxEventsPerGroup, alwaysShowDetails) ==
    LET totalEvents == Len(events)
        useSummary == mode = "summary" \/ (mode = "smart" /\ totalEvents > SmartSummaryTotal)
    IN [total |-> totalEvents,
        groups |-> {[Kind |-> group.Kind, EventType |-> group.EventType,
                     events |-> group.Events,
                     count |-> Len(group.Events),
                     detail |-> /\ ~useSummary
                                /\ shouldShowDetailsForGroup(mode, group.EventType,
                                       Len(group.Events), maxEventsPerGroup,
                                       alwaysShowDetails)] :
                      group \in groupEvents(events)}]

\* Batcher.ShouldShowDetails, lines 150-189, for the batching section c;
\* totalEvents is what lines 171-174 read as len(b.events)
Batcher_ShouldShowDetails(c, totalEvents, eventType, eventCount) ==
    IF c.Mode = "detailed" THEN TRUE
    ELSE IF c.Mode = "summary" THEN FALSE
    ELSE IF c.Mode = "smart"
    THEN IF \E i \in 1..Len(c.Smart.AlwaysShowDetails) :
               c.Smart.AlwaysShowDetails[i] = eventType
         THEN TRUE
         ELSE IF c.Smart.MaxTotalEvents > 0 /\ totalEvents > c.Smart.MaxTotalEvents
         THEN FALSE
         ELSE IF c.Smart.MaxEventsPerGroup > 0 /\ eventCount > c.Smart.MaxEventsPerGroup
         THEN FALSE
         ELSE TRUE
    ELSE TRUE

\* batcher.NewBatcher for the configuration of generation g
NewBatcher(g) ==
    [events |-> <<>>, mu |-> "", timer |-> "nil", startTime |-> now,
     stopCh |-> "open", c |-> g]

\* the history of a batcher nothing was added to
NoHistory == [added |-> <<>>, emitted |-> <<>>, atStop |-> Nil]

\* the goroutine time.AfterFunc starts for the timer of batcher b
TimerOf(b) == "timer" \o ToString(b)

\* the informer of a kind calls its handlers from one goroutine
Handlers == {"h1"}
Generations == 0..MaxReloads
Threads == Handlers \cup {"reload", "main"} \cup {TimerOf(b) : b \in Generations}

\* the components initComponents builds from the first configuration
InitPipeline(c) ==
    /\ now = 0
    /\ config = (0 :> c)
    /\ comp = [fmt |-> 0, slackNotifier |-> 0, eventFilter |-> 0,
               deduplicator |-> IF c.Deduplication.Enabled THEN 0 ELSE Nil,
               eventBatcher |-> IF c.Batching.Enabled THEN 0 ELSE Nil]
    /\ dedup = IF c.Deduplication.Enabled
               THEN (0 :> NewDeduplicator(c.Deduplication.TTLSeconds,
                                          c.Deduplication.MaxCacheSize))
               ELSE <<>>
    /\ stored = IF c.Deduplication.Enabled THEN (0 :> EmptyMap) ELSE <<>>
    /\ batcher = IF c.Batching.Enabled THEN (0 :> NewBatcher(0)) ELSE <<>>
    /\ history = IF c.Batching.Enabled THEN (0 :> NoHistory) ELSE <<>>
    /\ deferred = [deduplicator |-> comp.deduplicator, eventBatcher |-> comp.eventBatcher]
    /\ installed = {comp}
    /\ mu = ""
    /\ pc = [t \in Threads |-> IF t = "main" THEN "running" ELSE "idle"]
    /\ sp = [t \in Handlers |-> NoFrame]
    /\ hv = [t \in Handlers |-> NoHandler]
    /\ fl = [t \in Threads \ Handlers |-> NoFlush]
    /\ sink = <<>>
    /\ proc = "up"
    /\ loads = 0
    /\ delivered = <<>>
    /\ cb = [t \in Handlers |-> NoCallback]

Init == \E c \in {c \in Configs : ~NewFormatterErr(c.Template)} : InitPipeline(c)

-----------------------------------------------------------------------------
(* cmd/main.go: eventHandler *)

\* createEventHandler: the body of AddFunc, UpdateFunc or DeleteFunc of the
\* informer of the object's kind; UpdateFunc returns on an update without
\* significant change, otherwise the object is converted and the handler called
createEventHandler_Run(h) ==
    /\ proc = "up"
    /\ pc[h] = "w_callback"
    /\ LET obj == cb[h].newObj
           eventType == CASE cb[h].fn = "AddFunc" -> "ADDED"
                          [] cb[h].fn = "UpdateFunc" -> "UPDATED"
                          [] cb[h].fn = "DeleteFunc" -> "DELETED"
           event == convertToEvent(obj, obj.Kind, eventType, now)
       IN IF cb[h].fn = "UpdateFunc" /\ ~hasSignificantChange(cb[h].oldObj, obj)
          THEN /\ pc' = [pc EXCEPT ![h] = "idle"]
               /\ UNCHANGED <<delivered, hv>>
          ELSE /\ delivered' = Append(delivered, event)
               /\ hv' = [hv EXCEPT ![h] = [event |-> event, snap |-> NoSnap]]
               /\ pc' = [pc EXCEPT ![h] = "h_snapshot"]
    /\ UNCHANGED <<now, dedup, sp, stored, comp, mu, config, batcher, fl, sink, proc,
                   loads, deferred, installed, history, cb>>

\* the watcher's AddFunc/UpdateFunc/DeleteFunc converts the object and calls
\* the handler on one of its worker goroutines
Watch(h, obj, eventType, max) ==
    /\ proc = "up" /\ pc["main"] = "running"
    /\ pc[h] = "idle"
    /\ Len(delivered) < max
    /\ LET event == convertToEvent(obj, "Pod", eventType, now)
       IN /\ delivered' = Append(delivered, event)
          /\ hv' = [hv EXCEPT ![h] = [event |-> event, snap |-> NoSnap]]
    /\ pc' = [pc EXCEPT ![h] = "h_snapshot"]
    /\ UNCHANGED <<now, dedup, sp, stored, comp, mu, config, batcher, fl, sink, proc,
                   loads, deferred, installed, history, cb>>

\* UpdateFunc for a Pod whose update is a significant change
Deliver(h, obj) == Watch(h, obj, "UPDATED", MaxEvents)

\* the references are copied whether or not initComponents holds the lock
eventHandler_Snapshot_NoLock(h) ==
    /\ proc = "up"
    /\ pc[h] = "h_snapshot"
    /\ hv' = [hv EXCEPT ![h].snap = comp]
    /\ pc' = [pc EXCEPT ![h] = "h_filter"]
    /\ UNCHANGED <<now, dedup, sp, stored, comp, mu, config, batcher, fl, sink, proc,
                   loads, delivered, deferred, installed, history, cb>>

\* lines 153-159: the references are copied under the read lock
eventHandler_Snapshot(h) ==
    /\ proc = "up"
    /\ pc[h] = "h_snapshot"
    /\ mu = ""
    /\ hv' = [hv EXCEPT ![h].snap = comp]
    /\ pc' = [pc EXCEPT ![h] = "h_filter"]
    /\ UNCHANGED <<now, dedup, sp, stored, comp, mu, config, batcher, fl, sink, proc,
                   loads, delivered, deferred, installed, history, cb>>

\* the event is sent directly whether or not there is a batcher
Route_AlwaysSend(h) == "h_send"

\* lines 181-190: where an event that passed filter and deduplicator goes
Route(h) == IF hv[h].snap.eventBatcher # Nil THEN "h_add" ELSE "h_send"

\* lines 161-175: the filter, then the call of the deduplicator if there is one
eventHandler_Filter(h) ==
    /\ proc = "up"
    /\ pc[h] = "h_filter"
    /\ IF ~Filter_ShouldProcess(config[hv[h].snap.eventFilter], hv[h].event)
       THEN /\ pc' = [pc EXCEPT ![h] = "idle"]
            /\ hv' = [hv EXCEPT ![h] = NoHandler]
            /\ UNCHANGED sp
       ELSE IF hv[h].snap.deduplicator # Nil
       THEN /\ sp' = [sp EXCEPT ![h] =
                       [NoFrame EXCEPT
                          !.d = hv[h].snap.deduplicator,
                          !.key = [Kind |-> hv[h].event.Kind,
                                   Namespace |-> hv[h].event.Namespace,
                                   Name |-> hv[h].event.Name,
                                   EventType |-> hv[h].event.EventType],
                          !.data = EventFields(hv[h].event),
                          !.signature = generateSignature(EventFields(hv[h].event), now),
                          !.cacheKey = makeCacheKey([Kind |-> hv[h].event.Kind,
                                                     Namespace |-> hv[h].event.Namespace,
                                                     Name |-> hv[h].event.Name,
                                                     EventType |-> hv[h].event.EventType])]]
            /\ pc' = [pc EXCEPT ![h] = "sp_rlock"]
            /\ UNCHANGED hv
       ELSE /\ pc' = [pc EXCEPT ![h] = Route(h)]
            /\ UNCHANGED <<sp, hv>>
    /\ UNCHANGED <<now, dedup, stored, comp, mu, config, batcher, fl, sink, proc,
                   loads, delivered, deferred, installed, history, cb>>

\* lines 175-186: ShouldProcess has returned
eventHandler_Deduplicated(h) ==
    /\ proc = "up"
    /\ pc[h] = "sp_ret"
    /\ IF sp[h].ret
       THEN /\ pc' = [pc EXCEPT ![h] = Route(h)]
            /\ UNCHANGED hv
       ELSE /\ pc' = [pc EXCEPT ![h] = "idle"]
            /\ hv' = [hv EXCEPT ![h] = NoHandler]
    /\ sp' = [sp EXCEPT ![h] = NoFrame]
    /\ UNCHANGED <<now, dedup, stored, comp, mu, config, batcher, fl, sink, proc,
                   loads, delivered, deferred, installed, history, cb>>

\* lines 188-198: FormatSlackMessage and SendMessage with the snapshot's
\* formatter and notifier
eventHandler_Send(h) ==
    /\ proc = "up"
    /\ pc[h] = "h_send"
    /\ sink' = Append(sink, [kind |-> "single", events |-> <<hv[h].event>>,
                             fmt |-> hv[h].snap.fmt,
                             notifier |-> hv[h].snap.slackNotifier, c |-> Nil])
    /\ pc' = [pc EXCEPT ![h] = "idle"]
    /\ hv' = [hv EXCEPT ![h] = NoHandler]
    /\ UNCHANGED <<now, dedup, sp, stored, comp, mu, config, batcher, fl, proc,
                   loads, delivered, deferred, installed, history, cb>>

-----------------------------------------------------------------------------
(* pkg/batcher *)

\* an Add that appends the event and arms no timer once Stop has closed stopCh
Batcher_Add_NoTimerAfterStop(h) ==
    /\ proc = "up"
    /\ pc[h] = "h_add"
    /\ LET b == hv[h].snap.eventBatcher
           events == Append(batcher[b].events, hv[h].event)
           arm == Len(events) = 1 /\ batcher[b].stopCh = "open"
       IN /\ batcher[b].mu = ""
          /\ batcher' = [batcher EXCEPT
                ![b].events = events,
                ![b].startTime = IF arm THEN now ELSE @,
                ![b].timer = IF arm THEN "armed" ELSE @]
          /\ history' = [history EXCEPT ![b].added = Append(@, hv[h].event)]
    /\ pc' = [pc EXCEPT ![h] = "idle"]
    /\ hv' = [hv EXCEPT ![h] = NoHandler]
    /\ UNCHANGED <<now, dedup, sp, stored, comp, mu, config, fl, sink, proc,
                   loads, delivered, deferred, installed, cb>>

\* Batcher.Add, called by the handler on the batcher of its snapshot
Batcher_Add(h) ==
    /\ proc = "up"
    /\ pc[h] = "h_add"
    /\ LET b == hv[h].snap.eventBatcher
           events == Append(batcher[b].events, hv[h].event)
       IN /\ batcher[b].mu = ""
          /\ batcher' = [batcher EXCEPT
                ![b].events = events,
                ![b].startTime = IF Len(events) = 1 THEN now ELSE @,
                ![b].timer = IF Len(events) = 1 THEN "armed" ELSE @]
          /\ history' = [history EXCEPT ![b].added = Append(@, hv[h].event)]
    /\ pc' = [pc EXCEPT ![h] = "idle"]
    /\ hv' = [hv EXCEPT ![h] = NoHandler]
    /\ UNCHANGED <<now, dedup, sp, stored, comp, mu, config, fl, sink, proc,
                   loads, delivered, deferred, installed, cb>>

\* the timer armed by Add fires: its goroutine calls flush
timer_Fire(b) ==
    /\ proc = "up"
    /\ b \in DOMAIN batcher
    /\ batcher[b].timer = "armed"
    /\ pc[TimerOf(b)] = "idle"
    /\ batcher' = [batcher EXCEPT ![b].timer = "fired"]
    /\ fl' = [fl EXCEPT ![TimerOf(b)] = [NoFlush EXCEPT !.b = b, !.ret = "idle"]]
    /\ pc' = [pc EXCEPT ![TimerOf(b)] = "fl_lock"]
    /\ UNCHANGED <<now, dedup, sp, stored, comp, mu, config, hv, sink, proc,
                   loads, delivered, deferred, installed, history, cb>>

\* flush, line 90: b.mu.Lock()
flush_Lock(t) ==
    /\ proc = "up"
    /\ pc[t] = "fl_lock"
    /\ batcher[fl[t].b].mu = ""
    /\ batcher' = [batcher EXCEPT ![fl[t].b].mu = t]
    /\ pc' = [pc EXCEPT ![t] = "fl_locked"]
    /\ UNCHANGED <<now, dedup, sp, stored, comp, mu, config, hv, fl, sink, proc,
                   loads, delivered, deferred, installed, history, cb>>

\* flush with the buffer left as it is when the batch is taken
flush_Snapshot_NoReset(t) ==
    /\ proc = "up"
    /\ pc[t] = "fl_locked"
    /\ LET b == fl[t].b
       IN IF Len(batcher[b].events) = 0
          THEN /\ batcher' = [batcher EXCEPT ![b].mu = ""]
               /\ pc' = [pc EXCEPT ![t] = fl[t].ret]
               /\ fl' = [fl EXCEPT ![t] = NoFlush]
               /\ UNCHANGED history
          ELSE /\ batcher' = [batcher EXCEPT ![b].timer = "nil", ![b].mu = ""]
               /\ fl' = [fl EXCEPT ![t].batch = batcher[b].events]
               /\ pc' = [pc EXCEPT ![t] = "cb_rlock"]
               /\ history' = [history EXCEPT ![b].emitted = Append(@, fl'[t].batch)]
    /\ UNCHANGED <<now, dedup, sp, stored, comp, mu, config, hv, sink, proc,
                   loads, delivered, deferred, installed, cb>>

\* flush without the test for an empty buffer
flush_Snapshot_NoEmptyCheck(t) ==
    /\ proc = "up"
    /\ pc[t] = "fl_locked"
    /\ LET b == fl[t].b
       IN /\ batcher' = [batcher EXCEPT ![b].events = <<>>, ![b].timer = "nil",
                                        ![b].mu = ""]
          /\ fl' = [fl EXCEPT ![t].batch = batcher[b].events]
          /\ pc' = [pc EXCEPT ![t] = "cb_rlock"]
          /\ history' = [history EXCEPT ![b].emitted = Append(@, fl'[t].batch)]
    /\ UNCHANGED <<now, dedup, sp, stored, comp, mu, config, hv, sink, proc,
                   loads, delivered, deferred, installed, cb>>

\* flush, lines 93-112: nothing to send, or snapshot, reset and unlock before
\* the callback
flush_Snapshot(t) ==
    /\ proc = "up"
    /\ pc[t] = "fl_locked"
    /\ LET b == fl[t].b
       IN IF Len(batcher[b].events) = 0
          THEN /\ batcher' = [batcher EXCEPT ![b].mu = ""]
               /\ pc' = [pc EXCEPT ![t] = fl[t].ret]
               /\ fl' = [fl EXCEPT ![t] = NoFlush]
               /\ UNCHANGED history
          ELSE /\ batcher' = [batcher EXCEPT ![b].events = <<>>, ![b].timer = "nil",
                                             ![b].mu = ""]
               /\ fl' = [fl EXCEPT ![t].batch = batcher[b].events]
               /\ pc' = [pc EXCEPT ![t] = "cb_rlock"]
               /\ history' = [history EXCEPT ![b].emitted = Append(@, fl'[t].batch)]
    /\ UNCHANGED <<now, dedup, sp, stored, comp, mu, config, hv, sink, proc,
                   loads, delivered, deferred, installed, cb>>

\* batchHandler, lines 93-97: formatter and notifier are read under the read
\* lock; the configuration is the one the closure captured
batchHandler_RLock(t) ==
    /\ proc = "up"
    /\ pc[t] = "cb_rlock"
    /\ mu = ""
    /\ fl' = [fl EXCEPT ![t].fmt = comp.fmt, ![t].notifier = comp.slackNotifier,
                        ![t].c = batcher[fl[t].b].c]
    /\ pc' = [pc EXCEPT ![t] = "cb_send"]
    /\ UNCHANGED <<now, dedup, sp, stored, comp, mu, config, batcher, hv, sink, proc,
                   loads, delivered, deferred, installed, history, cb>>

\* batchHandler, lines 99-113: FormatBatchSlackMessage and SendMessage
batchHandler_Send(t) ==
    /\ proc = "up"
    /\ pc[t] = "cb_send"
    /\ LET currentConfig == config[fl[t].c]
           slackMessage == FormatBatchSlackMessage(fl[t].batch,
                              currentConfig.Batching.Mode,
                              currentConfig.Batching.Smart.MaxEventsPerGroup,
                              currentConfig.Batching.Smart.AlwaysShowDetails)
       IN sink' = Append(sink, [kind |-> "batch", events |-> fl[t].batch,
                                fmt |-> fl[t].fmt, notifier |-> fl[t].notifier,
                                c |-> fl[t].c, msg |-> slackMessage])
    /\ pc' = [pc EXCEPT ![t] = "fl_relock"]
    /\ UNCHANGED <<now, dedup, sp, stored, comp, mu, config, batcher, hv, fl, proc,
                   loads, delivered, deferred, installed, history, cb>>

\* flush, lines 114-115: b.mu.Lock() after the callback, then the deferred Unlock
flush_Relock(t) ==
    /\ proc = "up"
    /\ pc[t] = "fl_relock"
    /\ batcher[fl[t].b].mu = ""
    /\ pc' = [pc EXCEPT ![t] = fl[t].ret]
    /\ fl' = [fl EXCEPT ![t] = NoFlush]
    /\ UNCHANGED <<now, dedup, sp, stored, comp, mu, config, batcher, hv, sink, proc,
                   loads, delivered, deferred, installed, history, cb>>

\* Deduplicator.Stop: close(d.stopC); closing a closed channel panics
Deduplicator_Stop(d) ==
    IF dedup[d].stopC = "closed"
    THEN proc' = "crashed" /\ UNCHANGED dedup
    ELSE dedup' = [dedup EXCEPT ![d].stopC = "closed"] /\ UNCHANGED proc

\* cleanupLoop, lines 141-142: the goroutine sees stopC closed and returns
cleanupLoop_Stop(d) ==
    /\ proc = "up"
    /\ dedup[d].loop = "running"
    /\ dedup[d].stopC = "closed"
    /\ dedup' = [dedup EXCEPT ![d].loop = "stopped"]
    /\ UNCHANGED <<now, pc, sp, stored, pvars>>

-----------------------------------------------------------------------------
(* pkg/reload and cmd/main.go: initComponents as the reload callback *)

\* the generation of the configuration the reload goroutine is installing
Gen == loads

\* reloadConfig: the file changed; LoadConfig fails (no callback runs) or
\* yields a configuration, one of configs, with which the callback is called
reloadConfigFrom(configs) ==
    /\ proc = "up"
    /\ pc["main"] \in {"running", "m_cancel"}
    /\ pc["reload"] = "idle"
    /\ loads < MaxReloads
    /\ loads' = loads + 1
    /\ \/ UNCHANGED <<config, pc>>
       \/ \E c \in configs :
            /\ config' = ((loads + 1) :> c) @@ config
            /\ pc' = [pc EXCEPT !["reload"] = "ic_lock"]
    /\ UNCHANGED <<now, dedup, sp, stored, comp, mu, batcher, hv, fl, sink, proc,
                   delivered, deferred, installed, history, cb>>

\* reloadConfig with what the file can hold
reloadConfig == reloadConfigFrom(Configs)

\* line 47: mu.Lock()
initComponents_Lock ==
    /\ proc = "up"
    /\ pc["reload"] = "ic_lock"
    /\ mu = ""
    /\ mu' = "reload"
    /\ pc' = [pc EXCEPT !["reload"] = "ic_fmt"]
    /\ UNCHANGED <<now, dedup, sp, stored, comp, config, batcher, hv, fl, sink, proc,
                   loads, delivered, deferred, installed, history, cb>>

\* the formatter reference assigned before the error is looked at
initComponents_Formatter_AssignFirst ==
    /\ proc = "up"
    /\ pc["reload"] = "ic_fmt"
    /\ comp' = [comp EXCEPT !.fmt = Gen]
    /\ IF NewFormatterErr(config[Gen].Template)
       THEN /\ mu' = ""
            /\ installed' = installed \cup {comp'}
            /\ pc' = [pc EXCEPT !["reload"] = "idle"]
       ELSE /\ pc' = [pc EXCEPT !["reload"] = "ic_notifier"]
            /\ UNCHANGED <<mu, installed>>
    /\ UNCHANGED <<now, dedup, sp, stored, config, batcher, hv, fl, sink, proc,
                   loads, delivered, deferred, history, cb>>

\* lines 51-55: the formatter; on a template error the callback returns, and
\* the deferred Unlock runs, with no reference replaced
initComponents_Formatter ==
    /\ proc = "up"
    /\ pc["reload"] = "ic_fmt"
    /\ IF NewFormatterErr(config[Gen].Template)
       THEN /\ mu' = ""
            /\ installed' = installed \cup {comp}
            /\ pc' = [pc EXCEPT !["reload"] = "idle"]
            /\ UNCHANGED comp
       ELSE /\ comp' = [comp EXCEPT !.fmt = Gen]
            /\ pc' = [pc EXCEPT !["reload"] = "ic_notifier"]
            /\ UNCHANGED <<mu, installed>>
    /\ UNCHANGED <<now, dedup, sp, stored, config, batcher, hv, fl, sink, proc,
                   loads, delivered, deferred, history, cb>>

\* lines 58-61: the notifier and the filter
initComponents_NotifierFilter ==
    /\ proc = "up"
    /\ pc["reload"] = "ic_notifier"
    /\ comp' = [comp EXCEPT !.slackNotifier = Gen, !.eventFilter = Gen]
    /\ pc' = [pc EXCEPT !["reload"] = "ic_dedup"]
    /\ UNCHANGED <<now, dedup, sp, stored, mu, config, batcher, hv, fl, sink, proc,
                   loads, delivered, deferred, installed, history, cb>>

\* the new deduplicator takes over the cache of the one it supersedes
initComponents_Deduplicator_KeepCache ==
    /\ proc = "up"
    /\ pc["reload"] = "ic_dedup"
    /\ LET c == config[Gen]
           old == comp.deduplicator
           fresh == [NewDeduplicator(c.Deduplication.TTLSeconds, c.Deduplication.MaxCacheSize)
                        EXCEPT !.cache = IF old # Nil THEN dedup[old].cache ELSE EmptyMap]
           stopped == IF old # Nil THEN [dedup EXCEPT ![old].stopC = "closed"] ELSE dedup
       IN IF old # Nil /\ dedup[old].stopC = "closed"
          THEN /\ proc' = "crashed"
               /\ UNCHANGED <<dedup, stored, comp, pc>>
          ELSE /\ IF c.Deduplication.Enabled
                  THEN /\ dedup' = (Gen :> fresh) @@ stopped
                       /\ stored' = (Gen :> IF old # Nil THEN stored[old] ELSE EmptyMap) @@ stored
                       /\ comp' = [comp EXCEPT !.deduplicator = Gen]
                  ELSE /\ dedup' = stopped
                       /\ comp' = [comp EXCEPT !.deduplicator = Nil]
                       /\ UNCHANGED stored
               /\ pc' = [pc EXCEPT !["reload"] = "ic_batcher"]
               /\ UNCHANGED proc
    /\ UNCHANGED <<now, sp, mu, config, batcher, hv, fl, sink,
                   loads, delivered, deferred, installed, history, cb>>

\* lines 64-75: the old deduplicator is stopped, then a new one is built or
\* the reference is cleared
initComponents_Deduplicator ==
    /\ proc = "up"
    /\ pc["reload"] = "ic_dedup"
    /\ LET c == config[Gen]
           old == comp.deduplicator
           fresh == NewDeduplicator(c.Deduplication.TTLSeconds, c.Deduplication.MaxCacheSize)
           stopped == IF old # Nil THEN [dedup EXCEPT ![old].stopC = "closed"] ELSE dedup
       IN IF old # Nil /\ dedup[old].stopC = "closed"
          THEN /\ proc' = "crashed"
               /\ UNCHANGED <<dedup, stored, comp, pc>>
          ELSE /\ IF c.Deduplication.Enabled
                  THEN /\ dedup' = (Gen :> fresh) @@ stopped
                       /\ stored' = (Gen :> EmptyMap) @@ stored
                       /\ comp' = [comp EXCEPT !.deduplicator = Gen]
                  ELSE /\ dedup' = stopped
                       /\ comp' = [comp EXCEPT !.deduplicator = Nil]
                       /\ UNCHANGED stored
               /\ pc' = [pc EXCEPT !["reload"] = "ic_batcher"]
               /\ UNCHANGED proc
    /\ UNCHANGED <<now, sp, mu, config, batcher, hv, fl, sink,
                   loads, delivered, deferred, installed, history, cb>>

\* lines 78-81 and 130-131: the old batcher is stopped: Stop closes stopCh
\* and calls flush
initComponents_BatcherStop ==
    /\ proc = "up"
    /\ pc["reload"] = "ic_batcher"
    /\ IF comp.eventBatcher = Nil
       THEN /\ pc' = [pc EXCEPT !["reload"] = "ic_batcher_new"]
            /\ UNCHANGED <<batcher, fl, proc, history>>
       ELSE IF batcher[comp.eventBatcher].stopCh = "closed"
       THEN /\ proc' = "crashed"
            /\ UNCHANGED <<batcher, fl, pc, history>>
       ELSE /\ batcher' = [batcher EXCEPT ![comp.eventBatcher].stopCh = "closed"]
            /\ history' = [history EXCEPT ![comp.eventBatcher].atStop =
                                 Len(history[comp.eventBatcher].added)]
            /\ fl' = [fl EXCEPT !["reload"] =
                        [NoFlush EXCEPT !.b = comp.eventBatcher, !.ret = "ic_batcher_new"]]
            /\ pc' = [pc EXCEPT !["reload"] = "fl_lock"]
            /\ UNCHANGED proc
    /\ UNCHANGED <<now, dedup, sp, stored, comp, mu, config, hv, sink,
                   loads, delivered, deferred, installed, cb>>

\* lines 83-129 and 132: a new batcher, whose callback captures c, or nil
initComponents_Batcher ==
    /\ proc = "up"
    /\ pc["reload"] = "ic_batcher_new"
    /\ IF config[Gen].Batching.Enabled
       THEN /\ batcher' = (Gen :> NewBatcher(Gen)) @@ batcher
            /\ history' = (Gen :> NoHistory) @@ history
            /\ comp' = [comp EXCEPT !.eventBatcher = Gen]
       ELSE /\ comp' = [comp EXCEPT !.eventBatcher = Nil]
            /\ UNCHANGED <<batcher, history>>
    /\ pc' = [pc EXCEPT !["reload"] = "ic_unlock"]
    /\ UNCHANGED <<now, dedup, sp, stored, mu, config, hv, fl, sink, proc,
                   loads, delivered, deferred, installed, cb>>

\* line 136: return nil, and the deferred mu.Unlock()
initComponents_Unlock ==
    /\ proc = "up"
    /\ pc["reload"] = "ic_unlock"
    /\ mu' = ""
    /\ installed' = installed \cup {comp}
    /\ pc' = [pc EXCEPT !["reload"] = "idle"]
    /\ UNCHANGED <<now, dedup, sp, stored, comp, config, batcher, hv, fl, sink, proc,
                   loads, delivered, deferred, history, cb>>

-----------------------------------------------------------------------------
(* cmd/main.go: shutdown *)

\* lines 227-237: the signal cancels the context and w.Start returns
main_Signal ==
    /\ proc = "up"
    /\ pc["main"] = "running"
    /\ pc' = [pc EXCEPT !["main"] = "m_cancel"]
    /\ UNCHANGED <<now, dedup, sp, stored, pvars>>

\* line 217, deferred: configWatcher.Stop()
main_StopConfigWatcher ==
    /\ proc = "up"
    /\ pc["main"] = "m_cancel"
    /\ pc' = [pc EXCEPT !["main"] = "m_batcher"]
    /\ UNCHANGED <<now, dedup, sp, stored, pvars>>

\* line 147, deferred: Stop of the batcher that was installed when main
\* passed line 146
main_StopBatcher ==
    /\ proc = "up"
    /\ pc["main"] = "m_batcher"
    /\ LET b == deferred.eventBatcher
       IN IF b = Nil
          THEN /\ pc' = [pc EXCEPT !["main"] = "m_dedup"]
               /\ UNCHANGED <<batcher, fl, proc, history>>
          ELSE IF batcher[b].stopCh = "closed"
          THEN /\ proc' = "crashed"
               /\ UNCHANGED <<batcher, fl, pc, history>>
          ELSE /\ batcher' = [batcher EXCEPT ![b].stopCh = "closed"]
               /\ history' = [history EXCEPT ![b].atStop = Len(history[b].added)]
               /\ fl' = [fl EXCEPT !["main"] = [NoFlush EXCEPT !.b = b, !.ret = "m_dedup"]]
               /\ pc' = [pc EXCEPT !["main"] = "fl_lock"]
               /\ UNCHANGED proc
    /\ UNCHANGED <<now, dedup, sp, stored, comp, mu, config, hv, sink,
                   loads, delivered, deferred, installed, cb>>

\* line 144, deferred: Stop of the deduplicator that was installed when main
\* passed line 143
main_StopDeduplicator ==
    /\ proc = "up"
    /\ pc["main"] = "m_dedup"
    /\ IF deferred.deduplicator = Nil
       THEN UNCHANGED <<dedup, proc>>
       ELSE Deduplicator_Stop(deferred.deduplicator)
    /\ pc' = [pc EXCEPT !["main"] = "m_exit"]
    /\ UNCHANGED <<now, sp, stored, comp, mu, config, batcher, hv, fl, sink,
                   loads, delivered, deferred, installed, history, cb>>

\* main returns: the process exits, whatever its goroutines are doing
main_Exit ==
    /\ proc = "up"
    /\ pc["main"] = "m_exit"
    /\ proc' = "exited"
    /\ UNCHANGED <<now, pc, dedup, sp, stored, comp, mu, config, batcher, hv, fl, sink,
                   loads, delivered, deferred, installed, history, cb>>

-----------------------------------------------------------------------------
(* The pipeline under reloads and shutdown *)

\* the Pod the informer reports
Pods == {Pod("web", "1", "Running")}

FlushThreads == Threads \ Handlers

Next ==
    \/ \E h \in Handlers, obj \in Pods : Deliver(h, obj)
    \/ \E h \in Handlers : eventHandler_Snapshot(h)
    \/ \E h \in Handlers : eventHandler_Filter(h)
    \/ \E h \in Handlers : proc = "up" /\ ShouldProcess_Lookup(h)
    \/ \E h \in Handlers : proc = "up" /\ ShouldProcess_Check(h)
    \/ \E h \in Handlers : proc = "up" /\ ShouldProcess_Insert(h)
    \/ \E h \in Handlers : eventHandler_Deduplicated(h)
    \/ \E h \in Handlers : eventHandler_Send(h)
    \/ \E h \in Handlers : Batcher_Add(h)
    \/ \E b \in Generations : timer_Fire(b)
    \/ \E t \in FlushThreads : flush_Lock(t)
    \/ \E t \in FlushThreads : flush_Snapshot(t)
    \/ \E t \in FlushThreads : batchHandler_RLock(t)
    \/ \E t \in FlushThreads : batchHandler_Send(t)
    \/ \E t \in FlushThreads : flush_Relock(t)
    \/ \E d \in DOMAIN dedup : cleanupLoop_Stop(d)
    \/ reloadConfig
    \/ initComponents_Lock
    \/ initComponents_Formatter
    \/ initComponents_NotifierFilter
    \/ initComponents_Deduplicator
    \/ initComponents_BatcherStop
    \/ initComponents_Batcher
    \/ initComponents_Unlock
    \/ main_Signal
    \/ main_StopConfigWatcher
    \/ main_StopBatcher
    \/ main_StopDeduplicator
    \/ main_Exit

\* the clock stands still: within one tick no entry of a deduplicator
\* expires, and a timer fires whenever it likes
Spec == Init /\ [][Next]_vars

-----------------------------------------------------------------------------
(* The pipeline with deduplication on and batching off, under a running     *)
(* clock: updates of one Pod, one after the other                           *)

\* the Pod as successive updates show it: the same name and phase, the
\* resourceVersion moving on
Updates == {Pod("web", "1", "Running"), Pod("web", "2", "Running")}

\* deduplication.enabled=true, batching off
DedupOnly == Config(GoodTemplate, <<>>, TRUE, FALSE)

\* UpdateFunc hands the handler the next update of the Pod
DeliverUpdate(obj) == Watch("h1", obj, "UPDATED", MaxUpdates)

InitDedupOnly == InitPipeline(DedupOnly)

NextPipeline ==
    \/ \E obj \in Updates : DeliverUpdate(obj)
    \/ eventHandler_Snapshot("h1")
    \/ eventHandler_Filter("h1")
    \/ ShouldProcess_Lookup("h1")
    \/ ShouldProcess_Check("h1")
    \/ ShouldProcess_Insert("h1")
    \/ eventHandler_Deduplicated("h1")
    \/ eventHandler_Send("h1")
    \/ cleanupLoop_Ticker(0)
    \/ cleanupLoop_Signal(0)
    \/ pc["h1"] = "idle" /\ Tick

\* the handler is through with an event within the tick it was observed in
SpecPipeline == InitDedupOnly /\ [][NextPipeline]_vars

-----------------------------------------------------------------------------
(* The batcher under two handler goroutines, its window timer and shutdown  *)

\* the number of events the watcher hands to the handlers
MaxAdds == 3

\* the goroutines of two informers: each runs eventHandler for its resource
Adders == {"h1", "h2"}

\* the goroutines that run flush: the batcher's timer and main's deferred Stop
Flushers == {TimerOf(0), "main"}

\* batching.enabled=true, no filter, no deduplication
BatchOnly == Config(GoodTemplate, <<>>, FALSE, TRUE)

\* UpdateFunc hands a handler the next update of the Pod; every update has a
\* resourceVersion of its own
Accept(h) ==
    Watch(h, Pod("web", ToString(Len(delivered) + 1), "Running"), "UPDATED", MaxAdds)

\* the components initComponents builds from BatchOnly
InitBatcher ==
    /\ now = 0
    /\ config = (0 :> BatchOnly)
    /\ comp = [fmt |-> 0, slackNotifier |-> 0, eventFilter |-> 0,
               deduplicator |-> Nil, eventBatcher |-> 0]
    /\ dedup = <<>>
    /\ stored = <<>>
    /\ batcher = (0 :> NewBatcher(0))
    /\ history = (0 :> NoHistory)
    /\ deferred = [deduplicator |-> Nil, eventBatcher |-> 0]
    /\ installed = {comp}
    /\ mu = ""
    /\ pc = [t \in Adders \cup Flushers |-> IF t = "main" THEN "running" ELSE "idle"]
    /\ sp = [t \in Adders |-> NoFrame]
    /\ hv = [t \in Adders |-> NoHandler]
    /\ fl = [t \in Flushers |-> NoFlush]
    /\ sink = <<>>
    /\ proc = "up"
    /\ loads = 0
    /\ delivered = <<>>
    /\ cb = [t \in Adders |-> NoCallback]

NextBatcher ==
    \/ \E h \in Adders : Accept(h)
    \/ \E h \in Adders : eventHandler_Snapshot(h)
    \/ \E h \in Adders : eventHandler_Filter(h)
    \/ \E h \in Adders : Batcher_Add(h)
    \/ timer_Fire(0)
    \/ \E t \in Flushers : flush_Lock(t)
    \/ \E t \in Flushers : flush_Snapshot(t)
    \/ \E t \in Flushers : batchHandler_RLock(t)
    \/ \E t \in Flushers : batchHandler_Send(t)
    \/ \E t \in Flushers : flush_Relock(t)
    \/ main_Signal
    \/ main_StopConfigWatcher
    \/ main_StopBatcher
    \/ main_StopDeduplicator
    \/ main_Exit

\* the clock stands still: the timer fires whenever it likes
SpecBatcher == InitBatcher /\ [][NextBatcher]_vars

-----------------------------------------------------------------------------
(* Rendering of a batch: the window timer flushes a buffer the handlers     *)
(* have filled, under a configuration of the batching section               *)

\* the most Pod ADDED events and the most Pod DELETED events of one window
MaxAdded == 25
MaxDeleted == 2

\* the events of one window: nAdded Pods added, then nDeleted Pods deleted
Burst(nAdded, nDeleted) ==
    [i \in 1..(nAdded + nDeleted) |->
        convertToEvent(Pod("web", ToString(i), "Running"), "Pod",
                       IF i <= nAdded THEN "ADDED" ELSE "DELETED", 0)]

Bursts ==
    {Burst(nAdded, nDeleted) :
        nAdded \in 0..MaxAdded, nDeleted \in 0..MaxDeleted} \ {<<>>}

\* batching sections as Validate leaves them: the mode is one of the three,
\* the smart values are positive and alwaysShowDetails is not empty
BatchingConfigs ==
    {[BatchOnly EXCEPT !.Batching.Mode = mode,
                       !.Batching.Smart = [MaxEventsPerGroup |-> maxEventsPerGroup,
                                           MaxTotalEvents |-> maxTotalEvents,
                                           AlwaysShowDetails |-> alwaysShowDetails]] :
        mode \in {"smart", "detailed", "summary"},
        maxEventsPerGroup \in {1, 5},
        maxTotalEvents \in {2, 20, 30},
        alwaysShowDetails \in {<<"DELETED">>, <<"ADDED">>}}

\* the handlers have passed the events of one window to Add under
\* configuration c: the buffer holds them and the timer of the first Add is armed
InitBuffered(c, events) ==
    /\ now = 0
    /\ config = (0 :> c)
    /\ comp = [fmt |-> 0, slackNotifier |-> 0, eventFilter |-> 0,
               deduplicator |-> Nil, eventBatcher |-> 0]
    /\ dedup = <<>>
    /\ stored = <<>>
    /\ batcher = (0 :> [NewBatcher(0) EXCEPT !.events = events, !.timer = "armed"])
    /\ history = (0 :> [NoHistory EXCEPT !.added = events])
    /\ deferred = [deduplicator |-> Nil, eventBatcher |-> 0]
    /\ installed = {comp}
    /\ mu = ""
    /\ pc = [t \in Adders \cup Flushers |-> IF t = "main" THEN "running" ELSE "idle"]
    /\ sp = [t \in Adders |-> NoFrame]
    /\ hv = [t \in Adders |-> NoHandler]
    /\ fl = [t \in Flushers |-> NoFlush]
    /\ sink = <<>>
    /\ proc = "up"
    /\ loads = 0
    /\ delivered = events
    /\ cb = [t \in Adders |-> NoCallback]

InitRender == \E c \in BatchingConfigs, events \in Bursts : InitBuffered(c, events)

NextRender ==
    \/ timer_Fire(0)
    \/ flush_Lock(TimerOf(0))
    \/ flush_Snapshot(TimerOf(0))
    \/ batchHandler_RLock(TimerOf(0))
    \/ batchHandler_Send(TimerOf(0))
    \/ flush_Relock(TimerOf(0))

SpecRender == InitRender /\ [][NextRender]_vars

-----------------------------------------------------------------------------
(* Grouping of a batch: the window timer flushes a buffer of events of       *)
(* several kinds and event types                                            *)

\* the most events of one window
MaxBatch == 3

\* the events the handlers can have added: two kinds, two event types, two names
GroupedEvents ==
    {convertToEvent([Object(kind, "1", NoLabels, "", <<>>, 0, 0, "", <<>>) EXCEPT !.Name = name],
                    kind, eventType, 0) :
        kind \in {"Pod", "Deployment"}, eventType \in {"ADDED", "DELETED"},
        name \in {"web", "db"}}

\* the buffers of one window: the events in any order, repeats included
Batches == UNION {[1..n -> GroupedEvents] : n \in 1..MaxBatch}

InitGroup == \E events \in Batches : InitBuffered(BatchOnly, events)

SpecGroup == InitGroup /\ [][NextRender]_vars

-----------------------------------------------------------------------------
(* The filter: one rule, one event after the other, deduplication and       *)
(* batching off                                                             *)

\* the number of events the watcher hands to the handler
MaxFiltered == 1

\* the label maps of the rules and of the observed Pods
RuleLabels ==
    {NoLabels, "app" :> "web", "app" :> "", ("app" :> "web") @@ ("tier" :> "db")}
EventLabels ==
    {NoLabels, "app" :> "web", "app" :> "api", "tier" :> "db",
     ("app" :> "web") @@ ("tier" :> "db")}

\* the rules of the filters section: at most one rule per resource
Rules ==
    {FilterRule(resource, eventTypes, labels, expression) :
        resource \in {"Pod", "Deployment"},
        eventTypes \in {<<>>, <<"ADDED">>, <<"ADDED", "DELETED">>},
        labels \in RuleLabels,
        expression \in {"", ExprEventType, ExprLabel, ExprNotBool, ExprBad}}

FilterConfigs == {Config(GoodTemplate, <<rule>>, FALSE, FALSE) : rule \in Rules}

\* the Pods the informer reports
LabelledPods == {[Pod("web", "1", "Running") EXCEPT !.Labels = labels] : labels \in EventLabels}

\* AddFunc, UpdateFunc or DeleteFunc hands the handler an event of the Pod
Observe(obj, eventType) == Watch("h1", obj, eventType, MaxFiltered)

InitFilter == \E c \in FilterConfigs : InitPipeline(c)

NextFilter ==
    \/ \E obj \in LabelledPods, eventType \in {"ADDED", "UPDATED", "DELETED"} :
          Observe(obj, eventType)
    \/ eventHandler_Snapshot("h1")
    \/ eventHandler_Filter("h1")
    \/ eventHandler_Send("h1")

SpecFilter == InitFilter /\ [][NextFilter]_vars

-----------------------------------------------------------------------------
(* The handler with a rule that admits only ADDED events, with and without  *)
(* deduplicator and batcher, the clock standing still                       *)

\* the number of events the watcher hands to the handler
MaxOrdered == 3

\* a rule for Pods that lists ADDED, with each combination of deduplication
\* and batching
OrderConfigs ==
    {Config(GoodTemplate, <<FilterConfig("Pod", <<"ADDED">>)>>, dedupEnabled, batchingEnabled) :
        dedupEnabled \in BOOLEAN, batchingEnabled \in BOOLEAN}

\* AddFunc or UpdateFunc hands the handler an event of the one Pod
ObserveOrdered(eventType) == Watch("h1", Pod("web", "1", "Running"), eventType, MaxOrdered)

InitOrder == \E c \in OrderConfigs : InitPipeline(c)

NextOrder ==
    \/ \E eventType \in {"ADDED", "UPDATED"} : ObserveOrdered(eventType)
    \/ eventHandler_Snapshot("h1")
    \/ eventHandler_Filter("h1")
    \/ ShouldProcess_Lookup("h1")
    \/ ShouldProcess_Check("h1")
    \/ ShouldProcess_Insert("h1")
    \/ eventHandler_Deduplicated("h1")
    \/ eventHandler_Send("h1")
    \/ Batcher_Add("h1")
    \/ timer_Fire(0)
    \/ flush_Lock(TimerOf(0))
    \/ flush_Snapshot(TimerOf(0))
    \/ batchHandler_RLock(TimerOf(0))
    \/ batchHandler_Send(TimerOf(0))
    \/ flush_Relock(TimerOf(0))

SpecOrder == InitOrder /\ [][NextOrder]_vars

-----------------------------------------------------------------------------
(* The watcher: one callback of an informer, the handler behind it          *)

\* bounds: resource versions "1".."MaxRev", desired replicas 1..MaxReplicas
MaxRev == 2
MaxReplicas == 2

ResourceVersions == {ToString(i) : i \in 1..MaxRev}
ObjectLabels == {NoLabels, "app" :> "web"}
ContainerLists ==
    {<<Container("app", "a")>>, <<Container("app", "b")>>, <<Container("main", "a")>>,
     <<Container("app", "a"), Container("side", "b")>>}

\* the objects the informer of a kind can report
Objects(kind) ==
    CASE kind = "Pod" ->
           {Object(kind, rv, labels, phase, containers, 0, 0, "", <<>>) :
               rv \in ResourceVersions, labels \in ObjectLabels,
               phase \in {"Pending", "Running"}, containers \in ContainerLists}
      [] kind \in {"Deployment", "ReplicaSet", "StatefulSet", "DaemonSet"} ->
           {Object(kind, rv, labels, "", containers, replicas, ready, "", <<>>) :
               rv \in ResourceVersions, labels \in ObjectLabels,
               containers \in {<<Container("app", "a")>>, <<Container("app", "b")>>},
               replicas \in (IF kind = "DaemonSet" THEN {0} ELSE 1..MaxReplicas),
               ready \in 0..1}
      [] kind = "Service" ->
           {Object(kind, rv, labels, "", <<>>, 0, 0, serviceType, ports) :
               rv \in ResourceVersions, labels \in ObjectLabels,
               serviceType \in {"ClusterIP", "NodePort"},
               ports \in {<<80>>, <<8080>>, <<80, 443>>}}
      [] kind \in {"ConfigMap", "Secret"} ->
           {Object(kind, rv, labels, "", <<>>, 0, 0, "", <<>>) :
               rv \in ResourceVersions, labels \in ObjectLabels}

\* the kinds registerInformer knows
Kinds ==
    {"Pod", "Deployment", "Service", "ConfigMap", "Secret", "ReplicaSet", "StatefulSet",
     "DaemonSet"}

\* the calls an informer makes: AddFunc and DeleteFunc with an object,
\* UpdateFunc with two states of it (the same state twice on a resync)
Callbacks ==
    UNION {{[fn |-> fn, oldObj |-> NoObject, newObj |-> obj] :
               fn \in {"AddFunc", "DeleteFunc"}, obj \in Objects(kind)}
           \cup {[fn |-> "UpdateFunc", oldObj |-> oldObj, newObj |-> newObj] :
                    oldObj \in Objects(kind), newObj \in Objects(kind)} : kind \in Kinds}

\* no filter; deduplication and batching both on or both off
WatcherConfigs == {Config(GoodTemplate, <<>>, TRUE, TRUE), Config(GoodTemplate, <<>>, FALSE, FALSE)}

\* the components are built and an informer goroutine enters a callback
InitWatcher ==
    \E c \in WatcherConfigs, call \in Callbacks :
       /\ now = 0
       /\ config = (0 :> c)
       /\ comp = [fmt |-> 0, slackNotifier |-> 0, eventFilter |-> 0,
                  deduplicator |-> IF c.Deduplication.Enabled THEN 0 ELSE Nil,
                  eventBatcher |-> IF c.Batching.Enabled THEN 0 ELSE Nil]
       /\ dedup = IF c.Deduplication.Enabled
                  THEN (0 :> NewDeduplicator(c.Deduplication.TTLSeconds,
                                             c.Deduplication.MaxCacheSize))
                  ELSE <<>>
       /\ stored = IF c.Deduplication.Enabled THEN (0 :> EmptyMap) ELSE <<>>
       /\ batcher = IF c.Batching.Enabled THEN (0 :> NewBatcher(0)) ELSE <<>>
       /\ history = IF c.Batching.Enabled THEN (0 :> NoHistory) ELSE <<>>
       /\ deferred = [deduplicator |-> comp.deduplicator, eventBatcher |-> comp.eventBatcher]
       /\ installed = {comp}
       /\ mu = ""
       /\ pc = [t \in {"h1", "main", TimerOf(0)} |->
                  CASE t = "h1" -> "w_callback" [] t = "main" -> "running" [] OTHER -> "idle"]
       /\ sp = [t \in {"h1"} |-> NoFrame]
       /\ hv = [t \in {"h1"} |-> NoHandler]
       /\ fl = [t \in {"main", TimerOf(0)} |-> NoFlush]
       /\ sink = <<>>
       /\ proc = "up"
       /\ loads = 0
       /\ delivered = <<>>
       /\ cb = [t \in {"h1"} |-> call]

NextWatcher ==
    \/ createEventHandler_Run("h1")
    \/ eventHandler_Snapshot("h1")
    \/ eventHandler_Filter("h1")
    \/ ShouldProcess_Lookup("h1")
    \/ ShouldProcess_Check("h1")
    \/ ShouldProcess_Insert("h1")
    \/ eventHandler_Deduplicated("h1")
    \/ eventHandler_Send("h1")
    \/ Batcher_Add("h1")
    \/ timer_Fire(0)
    \/ flush_Lock(TimerOf(0))
    \/ flush_Snapshot(TimerOf(0))
    \/ batchHandler_RLock(TimerOf(0))
    \/ batchHandler_Send(TimerOf(0))
    \/ flush_Relock(TimerOf(0))

SpecWatcher == InitWatcher /\ [][NextWatcher]_vars

-----------------------------------------------------------------------------
(* The batcher under a running clock: the window timer fires when its       *)
(* window is over                                                            *)

\* bounds: the clock advances TicksPerWindow times per window, for MaxWindows windows
TicksPerWindow == 2
MaxWindows == 2

\* batcher.go, line 82: the duration the timer of batcher b is armed with
WindowOf(b) == config[batcher[b].c].Batching.WindowSeconds

\* the runtime runs the function of a timer when its duration has passed
timer_Expire(b) ==
    /\ b \in DOMAIN batcher
    /\ now >= batcher[b].startTime + WindowOf(b)
    /\ timer_Fire(b)

\* the clock advances while no goroutine is inside the handler or inside
\* flush, and not past the moment an armed timer is due
TickWindow ==
    /\ proc = "up"
    /\ \A t \in DOMAIN pc : pc[t] \in {"idle", "running", "m_cancel", "m_batcher", "m_dedup", "m_exit"}
    /\ \A b \in DOMAIN batcher :
          batcher[b].timer = "armed" => now < batcher[b].startTime + WindowOf(b)
    /\ now + (WindowOf(0) \div TicksPerWindow) <= MaxWindows * WindowOf(0)
    /\ now' = now + (WindowOf(0) \div TicksPerWindow)
    /\ UNCHANGED <<pc, dedup, sp, stored, pvars>>

NextWindow ==
    \/ \E h \in Adders : Accept(h)
    \/ \E h \in Adders : eventHandler_Snapshot(h)
    \/ \E h \in Adders : eventHandler_Filter(h)
    \/ \E h \in Adders : Batcher_Add(h)
    \/ timer_Expire(0)
    \/ \E t \in Flushers : flush_Lock(t)
    \/ \E t \in Flushers : flush_Snapshot(t)
    \/ \E t \in Flushers : batchHandler_RLock(t)
    \/ \E t \in Flushers : batchHandler_Send(t)
    \/ \E t \in Flushers : flush_Relock(t)
    \/ TickWindow
    \/ main_Signal
    \/ main_StopConfigWatcher
    \/ main_StopBatcher
    \/ main_StopDeduplicator
    \/ main_Exit

\* two handler goroutines, the timer and main's shutdown, with time
SpecWindow == InitBatcher /\ [][NextWindow]_vars

-----------------------------------------------------------------------------
(* The batcher under reloads, with the scheduler's fairness                 *)

\* the file is rewritten with batching left on
reloadBatching == reloadConfigFrom({BatchOnly})

NextReloadBatcher ==
    \/ \E obj \in Pods : Deliver("h1", obj)
    \/ eventHandler_Snapshot("h1")
    \/ eventHandler_Filter("h1")
    \/ Batcher_Add("h1")
    \/ \E b \in Generations : timer_Fire(b)
    \/ \E t \in FlushThreads : flush_Lock(t)
    \/ \E t \in FlushThreads : flush_Snapshot(t)
    \/ \E t \in FlushThreads : batchHandler_RLock(t)
    \/ \E t \in FlushThreads : batchHandler_Send(t)
    \/ \E t \in FlushThreads : flush_Relock(t)
    \/ reloadBatching
    \/ initComponents_Lock
    \/ initComponents_Formatter
    \/ initComponents_NotifierFilter
    \/ initComponents_Deduplicator
    \/ initComponents_BatcherStop
    \/ initComponents_Batcher
    \/ initComponents_Unlock

\* an armed timer fires; a goroutine inside flush or inside batchHandler,
\* the reload goroutine inside initComponents, and an informer goroutine
\* inside eventHandler, are scheduled whenever they can take their next step
Fairness ==
    /\ \A b \in Generations : WF_vars(timer_Fire(b))
    /\ \A h \in Handlers :
          /\ WF_vars(eventHandler_Snapshot(h))
          /\ WF_vars(eventHandler_Filter(h))
          /\ WF_vars(Batcher_Add(h))
    /\ WF_vars(initComponents_Lock) /\ WF_vars(initComponents_Formatter)
    /\ WF_vars(initComponents_NotifierFilter) /\ WF_vars(initComponents_Deduplicator)
    /\ WF_vars(initComponents_BatcherStop) /\ WF_vars(initComponents_Batcher)
    /\ WF_vars(initComponents_Unlock)
    /\ \A t \in FlushThreads :
          /\ WF_vars(flush_Lock(t))
          /\ WF_vars(flush_Snapshot(t))
          /\ WF_vars(batchHandler_RLock(t))
          /\ WF_vars(batchHandler_Send(t))
          /\ WF_vars(flush_Relock(t))

SpecReloadBatcher == InitPipeline(BatchOnly) /\ [][NextReloadBatcher]_vars /\ Fairness

-----------------------------------------------------------------------------
(* Claims about reload, locks and shutdown *)

\* the goroutine h holds a snapshot of the component references
HasSnapshot(h) == pc[h] \notin {"idle", "h_snapshot"}

\* the five references were built from one configuration; a component that
\* configuration switches off is nil
SameGeneration(s) ==
    \E g \in Generations :
        /\ s.fmt = g /\ s.slackNotifier = g /\ s.eventFilter = g
        /\ s.deduplicator \in {g, Nil}
        /\ s.eventBatcher \in {g, Nil}
        /\ (s.deduplicator = g) = config[g].Deduplication.Enabled
        /\ (s.eventBatcher = g) = config[g].Batching.Enabled

\* C1: the references a handler invocation works with are the ones one
\* completed initComponents left behind: formatter, notifier, filter,
\* deduplicator and batcher of a snapshot all come from one configuration
\* generation, whatever reloads run beside the handler
C1_ReloadAtomic ==
    \A h \in Handlers :
        HasSnapshot(h) => hv[h].snap \in installed /\ SameGeneration(hv[h].snap)

\* C1 witness: a handler works with the snapshot it took before a reload,
\* while that reload holds the lock with the formatter replaced and the
\* filter not yet
C1_Witness ==
    /\ HasSnapshot("h1")
    /\ hv["h1"].snap.fmt = 0
    /\ mu = "reload"
    /\ comp.fmt = 1
    /\ comp.eventFilter = 0

\* a step of the reload goroutine stops a deduplicator or a batcher
ReloadStops ==
    /\ pc["reload"] \in {"ic_dedup", "ic_batcher"}
    /\ \/ \E d \in DOMAIN dedup : dedup[d].stopC = "open" /\ dedup'[d].stopC = "closed"
       \/ \E b \in DOMAIN batcher :
             batcher[b].stopCh = "open" /\ batcher'[b].stopCh = "closed"

\* C2: whenever a reload stops a superseded deduplicator or batcher, the
\* exclusive lock on the references has been released and the references
\* no longer name the stopped instance
C2_StopAfterRelease ==
    [][ReloadStops =>
          /\ mu = ""
          /\ \A d \in DOMAIN dedup :
                dedup'[d].stopC # dedup[d].stopC => comp.deduplicator # d
          /\ \A b \in DOMAIN batcher :
                batcher'[b].stopCh # batcher[b].stopCh => comp.eventBatcher # b]_vars

\* C3: a goroutine inside batchHandler, or about to send, holds neither the
\* lock on the references nor the mutex of a batcher
C3_NoLockAcrossCallback ==
    /\ \A t \in FlushThreads :
          pc[t] \in {"cb_rlock", "cb_send"} =>
             /\ mu # t
             /\ \A b \in DOMAIN batcher : batcher[b].mu # t
    /\ \A h \in Handlers :
          pc[h] = "h_send" => mu # h /\ \A b \in DOMAIN batcher : batcher[b].mu # h

\* C4: when the process has exited with no reload and no handler under way,
\* the batcher the references name has been stopped and holds no event
C4_InstalledBatcherFlushed ==
    (/\ proc = "exited"
     /\ pc["reload"] = "idle"
     /\ \A h \in Handlers : pc[h] = "idle"
     /\ comp.eventBatcher # Nil)
    => /\ batcher[comp.eventBatcher].stopCh = "closed"
       /\ batcher[comp.eventBatcher].events = <<>>

\* two events a reader of the notifications cannot tell apart
IdenticalAsNotification(e1, e2) ==
    /\ e1.Kind = e2.Kind /\ e1.Namespace = e2.Namespace /\ e1.Name = e2.Name
    /\ e1.EventType = e2.EventType /\ e1.Status = e2.Status

\* the time to live of the deduplicator the pipeline was started with
PipelineTTL == config[0].Deduplication.TTLSeconds

\* C7: of three Pod UPDATED events identical as notifications, the second
\* within the time to live of the first and the third at or after it, the
\* sink gets exactly two: the first and the third
C7_TwoSinkCalls ==
    (/\ Len(delivered) = 3
     /\ pc["h1"] = "idle"
     /\ IdenticalAsNotification(delivered[1], delivered[2])
     /\ IdenticalAsNotification(delivered[1], delivered[3])
     /\ delivered[2].Timestamp - delivered[1].Timestamp < PipelineTTL
     /\ delivered[3].Timestamp - delivered[1].Timestamp >= PipelineTTL)
    => /\ Len(sink) = 2
       /\ sink[1].events = <<delivered[1]>>
       /\ sink[2].events = <<delivered[3]>>

\* C12: a Stop of a deduplicator that has been stopped before completes
\* normally and changes nothing
C12_StopIdempotent ==
    [][(/\ pc["main"] = "m_dedup" /\ pc'["main"] = "m_exit"
        /\ deferred.deduplicator # Nil
        /\ dedup[deferred.deduplicator].stopC = "closed")
       => (proc' = "up" /\ dedup' = dedup)]_vars
-----------------------------------------------------------------------------
(* Claims about the batcher *)

RECURSIVE Flatten(_)
\* the events of a sequence of batches, one batch after the other
Flatten(batches) ==
    IF batches = <<>> THEN <<>> ELSE Head(batches) \o Flatten(Tail(batches))

\* the events added to batcher b that no batch has taken yet
SinceLastEmission(b) ==
    SubSeq(history[b].added, Len(Flatten(history[b].emitted)) + 1, Len(history[b].added))

\* goroutine t takes a batch in this step: flush goes on to the callback
TakesBatch(t) == pc[t] = "fl_locked" /\ pc'[t] = "cb_rlock"

\* C14: the batch flush hands to the callback is exactly the events passed to
\* Add since the previous batch was taken (or since construction), in the
\* order of the Adds, and the buffer is empty right after the snapshot
C14_BatchIsEventsSinceLastEmission ==
    [][\A t \in Flushers :
          TakesBatch(t) =>
             /\ fl'[t].batch = SinceLastEmission(fl[t].b)
             /\ batcher'[fl[t].b].events = <<>>]_vars

\* a second batch, holding the events of both handlers, is on its way to the
\* callback
C14_Witness ==
    \E t \in Flushers :
       /\ pc[t] = "cb_rlock"
       /\ Len(history[fl[t].b].emitted) = 2
       /\ Len(fl[t].batch) = 2
       /\ fl[t].batch = SubSeq(history[fl[t].b].added, 2, 3)

\* the number of emitted batches of b that hold the event e
BatchesWith(b, e) ==
    Cardinality({i \in 1..Len(history[b].emitted) :
                   \E k \in 1..Len(history[b].emitted[i]) : history[b].emitted[i][k] = e})

\* the number of places the event e has in the emitted batches of b
PlacesOf(b, e) ==
    Cardinality({p \in (1..Len(history[b].emitted)) \X (1..MaxAdds + 1) :
                   /\ p[2] <= Len(history[b].emitted[p[1]])
                   /\ history[b].emitted[p[1]][p[2]] = e})

\* C15: whatever the interleaving of Adds, timer and Stop, an event passed to
\* Add is in at most one emitted batch and once in it, is in the buffer until
\* a batch takes it, and no batch is empty
C15_EveryEventInExactlyOneBatch ==
    \A b \in DOMAIN history :
       /\ \A i \in 1..Len(history[b].added) :
             LET e == history[b].added[i]
                 buffered == \E k \in 1..Len(batcher[b].events) : batcher[b].events[k] = e
             IN /\ BatchesWith(b, e) <= 1
                /\ PlacesOf(b, e) <= 1
                /\ (BatchesWith(b, e) = 0) <=> buffered
       /\ \A i \in 1..Len(history[b].emitted) : history[b].emitted[i] # <<>>
       /\ Flatten(history[b].emitted) \o batcher[b].events = history[b].added

\* Adds of both handlers, a batch taken by the timer and one by Stop's flush
\* have all happened, and Stop has returned
C15_Witness ==
    /\ pc["main"] = "m_dedup"
    /\ Len(history[0].added) >= 3
    /\ Len(history[0].emitted) >= 2
    /\ \E i, j \in 1..Len(sink) :
          /\ i < j
          /\ sink[i].kind = "batch" /\ sink[j].kind = "batch"
          /\ sink[i].events \o sink[j].events = SubSeq(history[0].added, 1,
                                                      Len(sink[i].events) + Len(sink[j].events))
\* Stop of batcher b was called and has returned: stopCh is closed and the
\* flush Stop ran is over
StopReturned(b) ==
    /\ history[b].atStop # Nil
    /\ \A t \in DOMAIN fl \ {TimerOf(b)} : fl[t].b # b

\* a callback invocation that has completed was given the event e by batcher b
CallbackCompleted(b, e) ==
    \E i \in 1..Len(sink) :
       /\ sink[i].kind = "batch" /\ sink[i].c = b
       /\ \E k \in 1..Len(sink[i].events) : sink[i].events[k] = e

\* C16: once Stop has returned, every event passed to Add before Stop was
\* called has been given to the callback and that invocation has completed
C16_StopDeliversAll ==
    \A b \in DOMAIN history :
       StopReturned(b) =>
          \A i \in 1..history[b].atStop : CallbackCompleted(b, history[b].added[i])

\* C17: a batcher whose Stop has returned hands no further batch to the
\* callback
C17_NoEmissionAfterStop ==
    [][\A t \in DOMAIN fl : TakesBatch(t) => ~StopReturned(fl[t].b)]_vars
-----------------------------------------------------------------------------
(* Claims about the rendering of a batch *)

\* the batch notifications sent in smart mode
SmartBatches ==
    {i \in 1..Len(sink) : sink[i].kind = "batch" /\ config[sink[i].c].Batching.Mode = "smart"}

\* the smart section of the configuration notification i was rendered under
SmartOf(i) == config[sink[i].c].Batching.Smart

\* the event type is listed in alwaysShowDetails
AlwaysDetailed(i, eventType) ==
    \E k \in 1..Len(SmartOf(i).AlwaysShowDetails) : SmartOf(i).AlwaysShowDetails[k] = eventType

\* C18: in smart mode a group whose event type is listed in alwaysShowDetails
\* is rendered in detail, whatever its count and whatever the total of the batch
C18_AlwaysShowDetailsWins ==
    \A i \in SmartBatches :
       \A g \in sink[i].msg.groups : AlwaysDetailed(i, g.EventType) => g.detail

\* C19: in smart mode a batch whose total exceeds the configured
\* maxTotalEvents has every group rendered as a summary
C19_OverTotalAllSummary ==
    \A i \in SmartBatches :
       Len(sink[i].events) > SmartOf(i).MaxTotalEvents =>
          \A g \in sink[i].msg.groups : ~g.detail

\* C20: in smart mode, in a batch whose total is within maxTotalEvents, a
\* group whose event type is not in alwaysShowDetails is rendered in detail
\* exactly when its count is at most maxEventsPerGroup
C20_DetailIffWithinGroupMax ==
    \A i \in SmartBatches :
       Len(sink[i].events) <= SmartOf(i).MaxTotalEvents =>
          \A g \in sink[i].msg.groups :
             ~AlwaysDetailed(i, g.EventType) =>
                (g.detail <=> g.count <= SmartOf(i).MaxEventsPerGroup)
-----------------------------------------------------------------------------
(* Claims about the filter *)

\* the handler h1 takes the filter's decision in this step
FilterStep == pc["h1"] = "h_filter" /\ pc'["h1"] # "h_filter"

\* the decision is to process the event: with neither deduplicator nor
\* batcher the handler goes on to send it
FilterPasses == pc'["h1"] = "h_send"

\* the one rule of the configuration the handler's filter was built from
RuleOf(h) == config[hv[h].snap.eventFilter].Filters[1]

\* the rule is the rule of the event's kind
RuleApplies(h) == RuleOf(h).Resource = hv[h].event.Kind

\* the event type is one of the rule's eventTypes
TypeListed(h) ==
    \E i \in 1..Len(RuleOf(h).EventTypes) : RuleOf(h).EventTypes[i] = hv[h].event.EventType

\* every configured label is on the event with exactly the configured value
LabelsPresent(h) ==
    \A key \in DOMAIN RuleOf(h).Labels :
       /\ key \in DOMAIN hv[h].event.Labels
       /\ hv[h].event.Labels[key] = RuleOf(h).Labels[key]

\* C21: an event whose kind has no rule passes; under a rule without
\* expression an event whose type is not in a non-empty eventTypes list is
\* rejected, and with an empty eventTypes list no event type is rejected
C21_EventTypeFiltering ==
    [][FilterStep =>
          /\ ~RuleApplies("h1") => FilterPasses
          /\ (/\ RuleApplies("h1") /\ RuleOf("h1").Expression = ""
              /\ RuleOf("h1").EventTypes # <<>> /\ ~TypeListed("h1")) => ~FilterPasses
          /\ (/\ RuleApplies("h1") /\ RuleOf("h1").Expression = ""
              /\ RuleOf("h1").EventTypes = <<>> /\ RuleOf("h1").Labels = NoLabels)
                => FilterPasses]_vars

\* an UPDATED event was rejected by a rule that lists ADDED and DELETED
C21_Witness ==
    /\ Len(delivered) = 1 /\ delivered[1].EventType = "UPDATED"
    /\ config[0].Filters[1] = FilterRule("Pod", <<"ADDED", "DELETED">>, NoLabels, "")
    /\ pc["h1"] = "idle" /\ sink = <<>>

\* C22: under a rule with labels and without expression, an event whose type
\* is allowed passes exactly when every configured key is on the event with
\* the configured value; an event that lacks a configured key is rejected
C22_LabelFiltering ==
    [][(/\ FilterStep /\ RuleApplies("h1") /\ RuleOf("h1").Expression = ""
        /\ RuleOf("h1").Labels # NoLabels
        /\ (RuleOf("h1").EventTypes = <<>> \/ TypeListed("h1")))
       => (FilterPasses <=> LabelsPresent("h1"))]_vars

\* the rule of the event's kind has a predicate that compiled
HasPredicate(h) ==
    /\ RuleApplies(h)
    /\ RuleOf(h).Expression # ""
    /\ ~NewCELFilterErr(RuleOf(h).Expression)

\* what the rule's predicate yields for the event
PredicateOf(h) == CELFilter_Evaluate(RuleOf(h).Expression, hv[h].event)

\* the basic (eventTypes, labels) result of the rule for the event
BasicResult(h) ==
    /\ RuleOf(h).EventTypes = <<>> \/ TypeListed(h)
    /\ LabelsPresent(h)

\* C23: under a rule with an expression, when the predicate evaluates without
\* error the decision is the predicate's value, whatever eventTypes and
\* labels say
C23_PredicateDecides ==
    [][(FilterStep /\ HasPredicate("h1") /\ ~PredicateOf("h1").err)
       => (FilterPasses <=> PredicateOf("h1").result)]_vars

\* an event passed on its predicate although the rule's eventTypes do not
\* list its type and its labels lack a configured one
C23_Witness ==
    /\ pc["h1"] = "h_send"
    /\ HasPredicate("h1") /\ PredicateOf("h1").result
    /\ RuleOf("h1").EventTypes # <<>> /\ ~TypeListed("h1")
    /\ ~LabelsPresent("h1")

\* C24: when the evaluation of the predicate fails, the decision is the basic
\* result if the rule configures eventTypes or labels, and the event is
\* dropped if it configures neither
C24_EvalErrorFallback ==
    [][(FilterStep /\ HasPredicate("h1") /\ PredicateOf("h1").err)
       => IF RuleOf("h1").EventTypes # <<>> \/ RuleOf("h1").Labels # NoLabels
          THEN FilterPasses <=> BasicResult("h1")
          ELSE ~FilterPasses]_vars
\* every rule of configuration c that sets an expression has its compiled
\* predicate in the filter built from c
PredicatesCompiled(c) ==
    \A i \in 1..Len(c.Filters) :
       c.Filters[i].Expression # "" => c.Filters[i].Resource \in DOMAIN celFilters(c)

\* C25: a reload whose rule has an expression that does not compile is
\* aborted: no filter that lacks the rule's predicate is installed by a reload
C25_BadExpressionAbortsReload ==
    \A s \in installed : s.eventFilter > 0 => PredicatesCompiled(config[s.eventFilter])
\* reloadConfig runs in this step and LoadConfig fails: no configuration of
\* the new generation exists
LoadConfigFails == loads' = loads + 1 /\ config' = config

\* the reload goroutine takes a step of a callback whose configuration has a
\* template NewFormatter rejects
FailedRebuildStep ==
    /\ pc["reload"] # "idle" /\ pc'["reload"] # pc["reload"]
    /\ NewFormatterErr(config[Gen].Template)

\* C29: a reload that fails changes nothing: when LoadConfig fails no
\* callback is started, and when the formatter template is rejected no
\* reference is replaced and no instance is stopped or created
C29_FailedReloadNoChange ==
    [][/\ LoadConfigFails =>
             (pc'["reload"] = "idle" /\ comp' = comp /\ dedup' = dedup /\ batcher' = batcher)
       /\ FailedRebuildStep =>
             (comp' = comp /\ dedup' = dedup /\ batcher' = batcher /\ installed' = installed)
      ]_vars

\* a reload with a rejected template is over: the lock is free and the
\* components of the first configuration, its running deduplicator and its
\* open batcher among them, are still the installed ones
C29_Witness ==
    /\ loads = 1 /\ 1 \in DOMAIN config /\ NewFormatterErr(config[1].Template)
    /\ pc["reload"] = "idle" /\ mu = ""
    /\ comp = [fmt |-> 0, slackNotifier |-> 0, eventFilter |-> 0,
               deduplicator |-> 0, eventBatcher |-> 0]
    /\ dedup[0].stopC = "open" /\ batcher[0].stopCh = "open"
    /\ installed = {comp}
-----------------------------------------------------------------------------
(* Claims about the order of the handler's stages *)

\* the filter of the handler's snapshot admits the handler's event
Admitted(h) == Filter_ShouldProcess(config[hv[h].snap.eventFilter], hv[h].event)

\* the handler is at a hand-off: about to call Add or to format and send
AtHandOff(h) == pc[h] \in {"h_add", "h_send"}

\* C30: filter, then deduplicator, then hand-off. The deduplicator is called
\* only with an event the filter admitted, and a rejected event leaves the
\* cache as it is; an event the deduplicator rejects is neither added to the
\* batcher nor sent; a hand-off follows only an admitted event that was not a
\* duplicate, and with a batcher it is Add, never a direct send
C30_StagesInOrder ==
    [][/\ (pc["h1"] = "h_filter" /\ pc'["h1"] # "h_filter" /\ ~Admitted("h1")) =>
             /\ pc'["h1"] = "idle"
             /\ dedup' = dedup /\ stored' = stored /\ batcher' = batcher /\ sink' = sink
       /\ (pc["h1"] # "sp_rlock" /\ pc'["h1"] = "sp_rlock") =>
             (pc["h1"] = "h_filter" /\ Admitted("h1"))
       /\ (pc["h1"] = "sp_ret" /\ pc'["h1"] # "sp_ret" /\ ~sp["h1"].ret) =>
             (pc'["h1"] = "idle" /\ batcher' = batcher /\ sink' = sink)
       /\ (~AtHandOff("h1") /\ AtHandOff("h1")') =>
             \/ pc["h1"] = "h_filter" /\ Admitted("h1") /\ hv["h1"].snap.deduplicator = Nil
             \/ pc["h1"] = "sp_ret" /\ sp["h1"].ret
       /\ pc'["h1"] = "h_send" => hv'["h1"].snap.eventBatcher = Nil
       /\ (Len(sink') > Len(sink) /\ sink'[Len(sink')].kind = "single") =>
             (pc["h1"] = "h_send" /\ hv["h1"].snap.eventBatcher = Nil)
       /\ (\E b \in DOMAIN history : history'[b].added # history[b].added) =>
             pc["h1"] = "h_add"
      ]_vars

\* with filter, deduplicator and batcher installed, an UPDATED event was
\* dropped by the filter, an ADDED event went to the batcher and its repeat
\* was dropped as a duplicate: one cache entry, one event added, nothing sent
C30_Witness ==
    /\ comp.deduplicator = 0 /\ comp.eventBatcher = 0
    /\ Len(delivered) = 3 /\ pc["h1"] = "idle"
    /\ Cardinality({i \in 1..3 : delivered[i].EventType = "ADDED"}) = 2
    /\ Len(history[0].added) = 1
    /\ Cardinality(DOMAIN dedup[0].cache) = 1
    /\ sink = <<>>

-----------------------------------------------------------------------------
(* Claims about the watcher's callbacks *)

\* the callback of goroutine h has returned from createEventHandler's function
\* or has called the handler
Called(h) == cb[h].fn # "" /\ pc[h] # "w_callback"

\* nothing behind the watcher has seen an event: the handler was not called,
\* no cache holds an entry, no batcher holds or has held an event, nothing
\* was sent
NoActivity(h) ==
    /\ pc[h] = "idle" /\ hv[h] = NoHandler
    /\ delivered = <<>>
    /\ \A d \in DOMAIN dedup : dedup[d].cache = EmptyMap
    /\ \A b \in DOMAIN batcher : batcher[b].events = <<>> /\ batcher[b].timer = "nil"
    /\ \A b \in DOMAIN history : history[b] = NoHistory
    /\ sink = <<>>

\* C26: an update callback whose old and new objects carry the same resource
\* version produces no event, whatever the kind and the other fields: the
\* handler is not called, and filter, deduplicator, batcher and sink see nothing
C26_EqualVersionNoEvent ==
    \A h \in DOMAIN cb :
       (/\ Called(h) /\ cb[h].fn = "UpdateFunc"
        /\ cb[h].oldObj.ResourceVersion = cb[h].newObj.ResourceVersion) => NoActivity(h)

\* an update of a Pod with equal resource versions whose phase and images
\* differ has returned, deduplicator and batcher installed
C26_Witness ==
    /\ Called("h1") /\ cb["h1"].fn = "UpdateFunc"
    /\ cb["h1"].newObj.Kind = "Pod"
    /\ cb["h1"].oldObj.ResourceVersion = cb["h1"].newObj.ResourceVersion
    /\ cb["h1"].oldObj.Phase # cb["h1"].newObj.Phase
    /\ imageChanged(cb["h1"].oldObj.Containers, cb["h1"].newObj.Containers)
    /\ comp.deduplicator = 0 /\ comp.eventBatcher = 0
    /\ pc["h1"] = "idle"

\* the callback of goroutine h handed exactly one event of the given type to
\* the handler, made from the callback's object
Produced(h, eventType) ==
    /\ Len(delivered) = 1
    /\ delivered[1].EventType = eventType
    /\ delivered[1].Kind = cb[h].newObj.Kind
    /\ delivered[1].Namespace = cb[h].newObj.Namespace
    /\ delivered[1].Name = cb[h].newObj.Name
    /\ delivered[1].Object = cb[h].newObj

ImagesOf(obj) == [i \in 1..Len(obj.Containers) |-> obj.Containers[i].Image]

\* the changes the kinds with a rule of their own report
Meaningful(oldObj, newObj) ==
    CASE newObj.Kind = "Pod" ->
           oldObj.Phase # newObj.Phase \/ ImagesOf(oldObj) # ImagesOf(newObj)
      [] newObj.Kind \in {"Deployment", "ReplicaSet", "StatefulSet"} ->
           \/ oldObj.Replicas # newObj.Replicas
           \/ oldObj.ReadyReplicas # newObj.ReadyReplicas
           \/ newObj.Kind = "Deployment" /\ ImagesOf(oldObj) # ImagesOf(newObj)
      [] newObj.Kind = "Service" ->
           \/ oldObj.ServiceType # newObj.ServiceType
           \/ Len(oldObj.Ports) # Len(newObj.Ports)

-----------------------------------------------------------------------------
(* Claims about batch emissions under reload *)

\* C31: a batch is rendered and delivered under one configuration generation:
\* the formatter and the notifier a batch notification was made and sent with
\* are those of the generation whose batcher collected the batch and whose
\* batching parameters rendered it, also when the emission overlaps or
\* follows a reload
C31_BatchUnderOneGeneration ==
    \A i \in 1..Len(sink) :
       sink[i].kind = "batch" =>
          /\ sink[i].fmt = sink[i].c
          /\ sink[i].notifier = sink[i].c

\* a handler's Add on batcher b in this step
AddsTo(b) ==
    \E h \in DOMAIN hv :
       pc[h] = "h_add" /\ pc'[h] = "idle" /\ hv[h].snap.eventBatcher = b

\* the timer of batcher b is armed in this step, to run when a window has passed
Arms(b) == batcher'[b].timer = "armed" /\ batcher[b].timer # "armed"

\* the timer is armed by the Add that finds the buffer empty and by nothing
\* else; an Add to a non-empty buffer leaves the timer and the start of the
\* window as they are
ArmedOnFirstAdd(b) ==
    /\ Arms(b) <=> (AddsTo(b) /\ batcher[b].events = <<>>)
    /\ (AddsTo(b) /\ batcher[b].events = <<>>) => batcher'[b].startTime = now
    /\ (AddsTo(b) /\ batcher[b].events # <<>>) =>
          /\ batcher'[b].timer = batcher[b].timer
          /\ batcher'[b].startTime = batcher[b].startTime

\* the batch the timer's goroutine takes is taken a window after the first
\* Add of the events in it
EmittedAfterWindow(b) ==
    TakesBatch(TimerOf(b)) => now = batcher[b].startTime + WindowOf(b)

\* C32: the window timer is armed exactly when an Add makes the buffer
\* non-empty, further Adds neither re-arm nor postpone it, and the emission
\* the timer triggers happens windowSeconds after the first Add of its window
C32_SingleShotWindow ==
    [][\A b \in DOMAIN batcher : ArmedOnFirstAdd(b) /\ EmittedAfterWindow(b)]_vars

\* the part of C32 about arming
C32_ArmedOnFirstAdd == [][\A b \in DOMAIN batcher : ArmedOnFirstAdd(b)]_vars

\* a flush of batcher b is on its way to the buffer: a goroutine has called
\* flush and has not yet looked at the events
FlushPending(b) ==
    \E t \in DOMAIN fl : fl[t].b = b /\ pc[t] \in {"fl_lock", "fl_locked"}

\* C33 (state part): a buffer that holds events has an armed timer or a
\* flush on its way, on every batcher, stopped or not
C33_BufferedHasTimerOrFlush ==
    \A b \in DOMAIN batcher :
       batcher[b].events # <<>> => batcher[b].timer = "armed" \/ FlushPending(b)

\* batcher b has been handed at least n events
Added(b, n) == b \in DOMAIN history /\ Len(history[b].added) >= n

\* flush has taken at least n events of batcher b for the callback
Emitted(b, n) == b \in DOMAIN history /\ Len(Flatten(history[b].emitted)) >= n

\* the reload callback waits for the lock it holds: a callback that does not
\* return
CallbackStuck == \E t \in DOMAIN fl : pc[t] = "cb_rlock" /\ mu = t

\* C33: every event passed to Add is eventually passed to the callback, as
\* long as the process runs, armed timers fire and callbacks return: always,
\* a buffer that holds events has an armed timer or a flush on its way, also
\* on a batcher a reload has stopped
C33_AddedEventuallyEmitted ==
    /\ []C33_BufferedHasTimerOrFlush
    /\ \A b \in Generations : \A n \in 1..(MaxEvents + 1) :
          Added(b, n) ~> (Emitted(b, n) \/ proc # "up" \/ CallbackStuck)

\* an event was added to the first batcher after a reload had stopped it,
\* and its buffer holds it
C33_Witness ==
    /\ 0 \in DOMAIN batcher
    /\ batcher[0].stopCh = "closed"
    /\ comp.eventBatcher = 1
    /\ history[0].atStop = 0
    /\ Len(batcher[0].events) = 1
    /\ batcher[0].timer = "armed"

-----------------------------------------------------------------------------
(* Claims about re-insertion and the reclaimer *)

\* C34: storing an entry for a key that is already in a full cache (its
\* entry expired, or live with another signature) replaces that key's entry
\* and removes no other key's entry: only the insertion of a new key evicts
C34_ReinsertEvictsNothing ==
    [][\A t \in Callers :
        (/\ Inserts(t)
         /\ sp[t].cacheKey \in DOMAIN CacheOf(t)
         /\ Cardinality(DOMAIN CacheOf(t)) >= dedup[sp[t].d].maxSize)
        => /\ DOMAIN dedup'[sp[t].d].cache = DOMAIN CacheOf(t)
           /\ \A j \in DOMAIN CacheOf(t) \ {sp[t].cacheKey} :
                 dedup'[sp[t].d].cache[j] = CacheOf(t)[j]
           /\ dedup'[sp[t].d].cache[sp[t].cacheKey] =
                 [Signature |-> sp[t].signature, Timestamp |-> now]
    ]_vars

\* the reclaimer runs in this step
ReclaimerRuns ==
    /\ dedup' # dedup
    /\ \A t \in Callers : pc'[t] = pc[t]
    /\ now' = now

\* what ShouldProcess returns for a key and a signature at time t, on cache c
ResultOn(c, cacheKey, signature, t, ttl) ==
    ~isDuplicate(cacheKey \in DOMAIN c,
                 IF cacheKey \in DOMAIN c THEN c[cacheKey] ELSE ZeroEntry,
                 signature, t, ttl)

\* C35: a run of the reclaimer removes every entry with now - observedAt >=
\* ttl and leaves every entry with now - observedAt < ttl as it is; its
\* boundary is that of the test in ShouldProcess, so the run changes the
\* result of no call made after it: a call that finds no entry for its key
\* or another signature is accepted either way, and a call with the key and
\* the signature of an entry gets the same answer at any later time
C35_ReclaimerKeepsResults ==
    [][ReclaimerRuns =>
         LET old == dedup[0].cache
             new == dedup'[0].cache
             ttl == dedup[0].ttl
         IN /\ DOMAIN new = {k \in DOMAIN old : now - old[k].Timestamp < ttl}
            /\ \A k \in DOMAIN new : new[k] = old[k]
            /\ \A ck \in DOMAIN old : \A t \in now..(now + ttl) :
                  ResultOn(new, ck, old[ck].Signature, t, ttl)
                     = ResultOn(old, ck, old[ck].Signature, t, ttl)
    ]_vars

\* between the lookup of a call and its decision the reclaimer removed the
\* entry the call had found, which had just reached ttl, and kept a younger one
C35_Witness ==
    /\ pc["c1"] = "sp_check"
    /\ sp["c1"].exists
    /\ now - sp["c1"].entry.Timestamp = dedup[0].ttl
    /\ sp["c1"].cacheKey \notin DOMAIN dedup[0].cache
    /\ \E k \in DOMAIN dedup[0].cache :
          /\ now - dedup[0].cache[k].Timestamp < dedup[0].ttl
          /\ now - dedup[0].cache[k].Timestamp > 0

-----------------------------------------------------------------------------
(* Claims about grouping *)

RECURSIVE SumOfCounts(_)
\* the sizes of the groups, added up
SumOfCounts(groups) ==
    IF groups = {} THEN 0
    ELSE LET g == CHOOSE g \in groups : TRUE IN g.count + SumOfCounts(groups \ {g})

\* the events of a batch that have the kind and the event type of group g, in
\* the order of the batch
SharingKey(events, g) ==
    SelectSeq(events, LAMBDA e : e.Kind = g.Kind /\ e.EventType = g.EventType)

\* groups partition a batch: every event in exactly one group, a group holds
\* exactly the events with its kind and event type, in batch order, and no
\* group is empty
Partitions(events, groups) ==
    /\ \A p \in 1..Len(events) :
          Cardinality({g \in groups :
             \E j \in 1..Len(g.Events) : g.Events[j] = events[p]}) = 1
    /\ \A g \in groups :
          /\ g.Events # <<>>
          /\ g.Events = SharingKey(events, g)

\* C36: the groups of a batch partition the batch, both those of
\* Batch.GroupEvents and those of the notification: every event is in exactly
\* one group, a group holds exactly the events with its kind and event type,
\* in batch order, no group is empty, and the group sizes add up to the total
\* the header states, which is the size of the batch
C36_GroupsPartitionBatch ==
    \A i \in 1..Len(sink) :
       sink[i].kind = "batch" =>
          LET events == sink[i].events
              groups == sink[i].msg.groups
          IN /\ Partitions(events, Batch_GroupEvents(events))
             /\ Partitions(events, {[Kind |-> g.Kind, EventType |-> g.EventType,
                                     Events |-> g.events] : g \in groups})
             /\ \A g \in groups : g.count = Len(g.events)
             /\ SumOfCounts(groups) = sink[i].msg.total
             /\ sink[i].msg.total = Len(events)

\* a batch of three events was sent in which the first and the third share
\* kind and event type and the second has the same kind only: two groups
C36_Witness ==
    /\ Len(sink) = 1 /\ sink[1].kind = "batch"
    /\ Len(sink[1].events) = 3
    /\ sink[1].events[1].Kind = sink[1].events[2].Kind
    /\ sink[1].events[1].EventType # sink[1].events[2].EventType
    /\ sink[1].events[3].Kind = sink[1].events[1].Kind
    /\ sink[1].events[3].EventType = sink[1].events[1].EventType
    /\ sink[1].events[3].Name # sink[1].events[1].Name
    /\ Cardinality(sink[1].msg.groups) = 2

-----------------------------------------------------------------------------
(* Claims about termination of a reload *)

\* the reload callback is under way: initComponents has been entered and has
\* not returned
ReloadUnderWay == pc["reload"] # "idle"

\* a goroutine waits for the lock on the references
WaitsForComponents(t) == pc[t] \in {"h_snapshot", "cb_rlock"}

\* C37: a reload callback that has begun returns and leaves the lock on the
\* references free, also when the batcher it supersedes holds events; and a
\* handler or batch emission waiting for that lock goes on
C37_ReloadTerminates ==
    /\ ReloadUnderWay ~> ((~ReloadUnderWay /\ mu = "") \/ proc # "up")
    /\ \A t \in Threads :
          WaitsForComponents(t) ~> (~WaitsForComponents(t) \/ proc # "up")

-----------------------------------------------------------------------------
(* Claims about stopping the instances *)

\* every deduplicator and every batcher that was ever installed is stopped
AllInstancesStopped ==
    /\ \A d \in DOMAIN dedup : dedup[d].stopC = "closed"
    /\ \A b \in DOMAIN batcher : batcher[b].stopCh = "closed"

\* C38: through reloads and shutdown no deduplicator and no batcher is
\* stopped a second time (the close of a closed channel ends the process),
\* and when the process has exited after completed reloads every instance
\* that was ever installed has been stopped
C38_EachInstanceStoppedOnce ==
    /\ proc # "crashed"
    /\ (proc = "exited" /\ pc["reload"] = "idle") => AllInstancesStopped

-----------------------------------------------------------------------------
(* Claims about the deduplicator a reload installs *)

\* initComponents installs a deduplicator in this step
InstallsDeduplicator ==
    /\ pc["reload"] = "ic_dedup" /\ pc'["reload"] = "ic_batcher"
    /\ config[Gen].Deduplication.Enabled

\* C39: the deduplicator a reload installs is a new instance with an empty
\* cache, whether or not the deduplication settings changed, and an instance
\* accepts every event whose key its own cache does not hold: an event
\* identical to one accepted before the reload is accepted again after it
C39_ReloadStartsEmptyCache ==
    [][/\ InstallsDeduplicator =>
             LET d == comp'.deduplicator
             IN /\ d \notin DOMAIN dedup
                /\ dedup'[d].cache = EmptyMap
                /\ dedup'[d].stopC = "open"
       /\ \A h \in Handlers :
             ((Rejects(h) \/ Inserts(h)) /\ sp[h].cacheKey \notin DOMAIN CacheOf(h))
                => sp'[h].ret]_vars

\* an event was accepted before a reload that left the deduplication settings
\* as they were, and an identical event, at the same time, was accepted after
\* it: each went on to the batcher of its generation, and the two caches hold
\* the same entry
C39_Witness ==
    /\ DOMAIN dedup = {0, 1}
    /\ config[0].Deduplication.Enabled
    /\ config[1].Deduplication = config[0].Deduplication
    /\ Len(delivered) = 2
    /\ delivered[1] = delivered[2]
    /\ DOMAIN history = {0, 1}
    /\ history[0].added = <<delivered[1]>>
    /\ history[1].added = <<delivered[2]>>
    /\ dedup[0].cache # EmptyMap
    /\ dedup[1].cache = dedup[0].cache

-----------------------------------------------------------------------------
(* Claims about the two detail-or-summary decisions *)

\* C40: for every group of every batch notification sent,
\* Batcher.ShouldShowDetails, evaluated under the batch's configuration with
\* the batch's total and the group's event type and count, gives the decision
\* FormatBatchSlackMessage applied to the group
C40_DecisionsAgree ==
    \A i \in 1..Len(sink) :
       sink[i].kind = "batch" =>
          \A g \in sink[i].msg.groups :
             Batcher_ShouldShowDetails(config[sink[i].c].Batching, sink[i].msg.total,
                                       g.EventType, g.count) = g.detail

====
